---- MODULE Spec2Model ----
(***************************************************************************)
(* The idempotent ingestion pipeline of the Pub-Sub log aggregator.        *)
(*                                                                         *)
(* The store is PostgreSQL at READ COMMITTED.  A transaction's writes are  *)
(* pending (insRows, newStats, audRows) until its commit publishes them    *)
(* together; a rollback discards them.  Two statements of the code can     *)
(* wait for another transaction:                                           *)
(*   - INSERT ... ON CONFLICT (topic, event_id) DO NOTHING waits while an  *)
(*     in-flight transaction holds an uncommitted row with the same        *)
(*     conflict target, and decides only once that one committed or rolled *)
(*     back;                                                               *)
(*   - UPDATE stats SET col = col + k WHERE id = 1 takes the row lock of   *)
(*     the singleton row, waits while another in-flight transaction holds  *)
(*     it, and then reads the latest committed version of the row.         *)
(* A cycle of waiting transactions is a deadlock: the store aborts one of  *)
(* them with an error.                                                     *)
(***************************************************************************)
EXTENDS Bags, FiniteSets, Integers, Sequences, TLC

\* ------------------------------------------------------------------ bounds
NTxns == 3          \* admissions (transactions) in one behaviour
MaxBatch == 2       \* events in one synchronous submission
MaxFaults == 1      \* transient store errors injected in one behaviour
NWorkers == 2       \* worker tasks start_workers spawns (num_workers)
MaxPublish == 2     \* events published to the channel in one behaviour
MaxStops == 2       \* calls of stop_workers in one behaviour
MaxLength == 3      \* Field(max_length=255), scaled: the longest topic or event_id
MaxReads == 1       \* calls of get_stats in one behaviour
MaxRequests == 2    \* requests to /publish and /events in one behaviour
MaxLimit == 2       \* Query(le=1000), scaled: the largest limit of /events

\* ------------------------------------------------------------------ inputs
Txns == 1..NTxns
\* Strings are sequences of characters: two topics and one event_id, of one
\* character each, are the keys the admissions are fed with.
Topics == {<<"a">>, <<"b">>}
EventIds == {<<"x">>}

\* start_workers: range(num_workers) and the names f"worker-{i}".
Workers == 0..(NWorkers - 1)
WorkerNames == <<"worker-0", "worker-1", "worker-2", "worker-3">>
WorkerName(i) == WorkerNames[i + 1]
WorkerIds == {WorkerName(i) : i \in Workers}

\* The calls of stop_workers: by the lifespan at shutdown and by the signal
\* handler's task.
Stops == 1..MaxStops

\* models.py Event.  The admission compares topic and event_id and only
\* copies the other fields (timestamp, source, payload): they are the body of
\* the event, and the body a submitter gave to the i-th event of admission t
\* is named <<t, i>>, so that a stored row tells which submission wrote it.
EventKey == [topic : Topics, event_id : EventIds]

Event(k, t, i) == [topic |-> k.topic, event_id |-> k.event_id, payload |-> <<t, i>>]

\* The event lists of a synchronous submission (BatchPublishRequest.events,
\* or the single Event of the request): at least one event.
BatchInputs == UNION {[1..n -> EventKey] : n \in 1..MaxBatch}

NoRow == [none |-> TRUE]
NoResult == [status |-> "none"]
Error == [status |-> "error"]

VARIABLES
    events,        \* committed rows of the events table
    stats,         \* committed singleton row of the stats table
    audit_log,     \* committed rows of the audit_log table (a bag)
    pc,            \* per admission: the statement it is about to run
    kind,          \* per admission: "single" (process_event) or "batch"
    evs,           \* per admission: the events it was called with
    worker_id,     \* per admission: the worker_id argument
    idx,           \* per admission: position of the loop over the events
    is_duplicate,  \* per admission: the value of is_duplicate, per event so far
    processed,     \* per admission: local counter of process_events_batch
    duplicates,    \* per admission: local counter of process_events_batch
    insRows,       \* per admission: uncommitted rows it inserted into events
    newStats,      \* per admission: uncommitted version of the stats row
    audRows,       \* per admission: uncommitted audit rows (a bag)
    result,        \* per admission: what the caller got back
    overlap,       \* the most admissions that were in flight at one time
    faults         \* transient store errors so far

VARIABLES
    shutdown,      \* _shutdown_event is set
    workers,       \* _workers: the worker tasks in the list
    wpc,           \* per worker task: the await it is suspended at
    pubsub,        \* per worker: the state of its PubSub object
    inbox,         \* per worker: messages delivered to its subscription
    cancelReq,     \* per worker task: cancel() called, CancelledError not yet raised
    wtxn,          \* per worker: the admission its process_event call runs
    spc,           \* per call of stop_workers: where it is
    published      \* the events published to the channel and who received them

VARIABLES
    http           \* the requests the HTTP API has taken, with their responses

VARIABLES
    pool,          \* _pool: "none" (None), "open", "closing", "closed"
    redis_client,  \* _redis_client: "none" (None), "open", "closing", "closed"
    lifespan       \* lifespan(): the call it is at, and its stop_workers call

storeVars == <<events, stats, audit_log>>
txnVars == <<pc, kind, evs, worker_id, idx, is_duplicate, processed, duplicates,
             insRows, newStats, audRows, result, overlap, faults>>
poolVars == <<shutdown, workers, wpc, pubsub, inbox, cancelReq, wtxn, spc,
              published>>
appVars == <<pool, redis_client, lifespan>>
apiVars == <<http, pool, redis_client, lifespan>>
vars == <<events, stats, audit_log, pc, kind, evs, worker_id, idx, is_duplicate,
          processed, duplicates, insRows, newStats, audRows, result, overlap, faults,
          shutdown, workers, wpc, pubsub, inbox, cancelReq, wtxn, spc, published,
          http, pool, redis_client, lifespan>>

Max(a, b) == IF a >= b THEN a ELSE b

RECURSIVE SumOver(_, _)
SumOver(f, S) ==
    IF S = {} THEN 0
    ELSE LET x == CHOOSE y \in S : TRUE IN f[x] + SumOver(f, S \ {x})

InFlightPcs == {"insert", "stats", "audit", "commit"}
InFlight(t) == pc[t] \in InFlightPcs

\* ------------------------------------------------------------------ schema
\* Schema state at install: no events, no audit rows, the stats row seeded.
SeedStats == [received |-> 0, unique_processed |-> 0, duplicate_dropped |-> 0]

Init ==
    /\ events = {}
    /\ stats = SeedStats
    /\ audit_log = EmptyBag
    /\ pc = [t \in Txns |-> "idle"]
    /\ kind = [t \in Txns |-> "none"]
    /\ evs = [t \in Txns |-> <<>>]
    /\ worker_id = [t \in Txns |-> "none"]
    /\ idx = [t \in Txns |-> 0]
    /\ is_duplicate = [t \in Txns |-> <<>>]
    /\ processed = [t \in Txns |-> 0]
    /\ duplicates = [t \in Txns |-> 0]
    /\ insRows = [t \in Txns |-> {}]
    /\ newStats = [t \in Txns |-> NoRow]
    /\ audRows = [t \in Txns |-> EmptyBag]
    /\ result = [t \in Txns |-> NoResult]
    /\ overlap = 0
    /\ faults = 0
    /\ shutdown = FALSE
    /\ workers = {}
    /\ wpc = [w \in Workers |-> "none"]
    /\ pubsub = [w \in Workers |-> "none"]
    /\ inbox = [w \in Workers |-> <<>>]
    /\ cancelReq = [w \in Workers |-> FALSE]
    /\ wtxn = [w \in Workers |-> 0]
    /\ spc = [s \in Stops |-> "idle"]
    /\ published = <<>>
    /\ http = <<>>
    /\ pool = "open"
    /\ redis_client = "open"
    /\ lifespan = [at |-> "start_workers", stop |-> 0]

\* ------------------------------------------------------ the SQL statements
\* The unique index the INSERT names: ON CONFLICT (topic, event_id).
ConflictTargetEventIdOnly(r) == <<r.event_id>>

ConflictTarget(r) == <<r.topic, r.event_id>>

\* VALUES ($1..$6): the row an INSERT of event e by worker w writes.
Row(e, w) ==
    [topic |-> e.topic, event_id |-> e.event_id, payload |-> e.payload,
     worker_id |-> w]

\* The rows a statement of admission t sees: the committed ones and its own.
VisibleRowsCommittedOnly(t) == events

VisibleRows(t) == events \cup insRows[t]

\* ON CONFLICT ... DO NOTHING finds a conflicting row: nothing is inserted
\* and RETURNING id yields no row.
InsertConflicts(t, e) ==
    \E r \in VisibleRows(t) : ConflictTarget(r) = ConflictTarget(e)

\* DO NOTHING on a conflict; otherwise the row joins t's uncommitted rows.
RowsAfterInsertAlways(t, e) == insRows[t] \cup {Row(e, worker_id[t])}

RowsAfterInsert(t, e) ==
    IF InsertConflicts(t, e) THEN insRows[t]
    ELSE insRows[t] \cup {Row(e, worker_id[t])}

\* The INSERT of t waits for u: u is in flight and holds an uncommitted row
\* with the conflict target of the event t is inserting.
InsertWaitsForNever(t, u) == FALSE

InsertWaitsForSameKey(t, u) ==
    /\ u # t
    /\ pc[t] = "insert"
    /\ InFlight(u)
    /\ ConflictTarget(evs[u][1]) = ConflictTarget(evs[t][idx[t]])

InsertWaitsFor(t, u) ==
    /\ u # t
    /\ pc[t] = "insert"
    /\ InFlight(u)
    /\ ~InsertConflicts(t, evs[t][idx[t]])
    /\ \E r \in insRows[u] : ConflictTarget(r) = ConflictTarget(evs[t][idx[t]])

\* The UPDATE of t waits for u: u is in flight and holds the lock of the
\* stats row (it has updated it and not yet committed).
StatsWaitsForNever(t, u) == FALSE

StatsWaitsFor(t, u) ==
    /\ u # t
    /\ pc[t] = "stats"
    /\ InFlight(u)
    /\ newStats[u] # NoRow

WaitsFor(t, u) == InsertWaitsFor(t, u) \/ StatsWaitsFor(t, u)

Blocked(t) == \E u \in Txns : WaitsFor(t, u)

\* The admissions t waits for, directly or through others.
RECURSIVE WaitClosure(_, _)
WaitClosure(S, n) ==
    IF n = 0 THEN S
    ELSE WaitClosure(S \cup {u \in Txns : \E v \in S : WaitsFor(v, u)}, n - 1)

Deadlocked(t) == t \in WaitClosure({u \in Txns : WaitsFor(t, u)}, NTxns)

\* process_event: the parameters $1, $2 of its UPDATE stats.
StatsDeltaSingleNoDuplicate(d) ==
    [received |-> 1, unique_processed |-> IF d THEN 0 ELSE 1,
     duplicate_dropped |-> 0]

StatsDeltaSingle(d) ==
    [received |-> 1,
     unique_processed |-> IF d THEN 0 ELSE 1,
     duplicate_dropped |-> IF d THEN 1 ELSE 0]

\* process_events_batch: the parameters $1, $2, $3 of its UPDATE stats.
StatsDeltaBatchReceivedPerLoop(n, p, d) ==
    [received |-> 1, unique_processed |-> p, duplicate_dropped |-> d]

StatsDeltaBatch(n, p, d) ==
    [received |-> n, unique_processed |-> p, duplicate_dropped |-> d]

\* SET received = received + .., unique_processed = unique_processed + ..,
\* duplicate_dropped = duplicate_dropped + ..
UpdateStatsOverwrite(row, delta) == delta

UpdateStats(row, delta) ==
    [received |-> row.received + delta.received,
     unique_processed |-> row.unique_processed + delta.unique_processed,
     duplicate_dropped |-> row.duplicate_dropped + delta.duplicate_dropped]

\* INSERT INTO audit_log (topic, event_id, is_duplicate, worker_id).
AuditRowDefaultWorker(e, d, w) ==
    [topic |-> e.topic, event_id |-> e.event_id, is_duplicate |-> d,
     worker_id |-> "main"]

AuditRowNeverDuplicate(e, d, w) ==
    [topic |-> e.topic, event_id |-> e.event_id, is_duplicate |-> FALSE,
     worker_id |-> w]

AuditRow(e, d, w) ==
    [topic |-> e.topic, event_id |-> e.event_id, is_duplicate |-> d,
     worker_id |-> w]

\* ------------------------------------------------- commit and rollback
\* tr.commit(): the pending writes become the committed state, together.
CommittedEvents(t) == events \cup insRows[t]

CommittedStats(t) == IF newStats[t] = NoRow THEN stats ELSE newStats[t]

CommittedAudit(t) == audit_log (+) audRows[t]

\* tr.rollback(): the pending writes are discarded.
RolledBackEventsKept(t) == events \cup insRows[t]

RolledBackEvents(t) == events

RolledBackStatsKept(t) == CommittedStats(t)

RolledBackStats(t) == stats

RolledBackAuditKept(t) == audit_log (+) audRows[t]

RolledBackAudit(t) == audit_log

\* publish, sync=true: the PublishResponse built from the batch's totals.
PublishResponse(n, p, d) ==
    [status |-> "ok", received |-> n, processed |-> p, duplicates |-> d]

\* process_event: return True, is_duplicate.
SingleResultConflictIsError(d) ==
    IF d THEN [status |-> "error"]
    ELSE [status |-> "ok", success |-> TRUE, is_duplicate |-> d]

SingleResult(d) == [status |-> "ok", success |-> TRUE, is_duplicate |-> d]

Returned(t) ==
    IF kind[t] = "single"
    THEN SingleResult(is_duplicate[t][1])
    ELSE PublishResponse(Len(evs[t]), processed[t], duplicates[t])

\* ------------------------------------------------------------ admissions
\* Admissions are numbered in the order they begin.
MayBegin(t) == pc[t] = "idle" /\ \A u \in Txns : u < t => pc[u] # "idle"

\* process_event(event, worker_id): acquire a connection, start the
\* transaction.  Called by a worker for one decoded message.
BeginSingle(t) ==
    /\ MayBegin(t)
    /\ \E k \in EventKey, w \in WorkerIds :
        /\ evs' = [evs EXCEPT ![t] = <<Event(k, t, 1)>>]
        /\ worker_id' = [worker_id EXCEPT ![t] = w]
    /\ kind' = [kind EXCEPT ![t] = "single"]
    /\ idx' = [idx EXCEPT ![t] = 1]
    /\ pc' = [pc EXCEPT ![t] = "insert"]
    /\ overlap' = Max(overlap, Cardinality({u \in Txns : InFlight(u)}) + 1)
    /\ UNCHANGED <<storeVars, is_duplicate, processed, duplicates, insRows,
                   newStats, audRows, result, faults>>

\* process_events_batch(events, "api-sync") is called with the events of
\* keys ks: acquire a connection, start the transaction.
BeginBatchOf(t, ks) ==
    /\ MayBegin(t)
    /\ evs' = [evs EXCEPT ![t] = [i \in 1..Len(ks) |-> Event(ks[i], t, i)]]
    /\ worker_id' = [worker_id EXCEPT ![t] = "api-sync"]
    /\ kind' = [kind EXCEPT ![t] = "batch"]
    /\ idx' = [idx EXCEPT ![t] = 1]
    /\ pc' = [pc EXCEPT ![t] = "insert"]
    /\ overlap' = Max(overlap, Cardinality({u \in Txns : InFlight(u)}) + 1)
    /\ UNCHANGED <<storeVars, is_duplicate, processed, duplicates, insRows,
                   newStats, audRows, result, faults>>

\* publish(sync=true) -> process_events_batch(events, "api-sync").
BeginBatch(t) == \E ks \in BatchInputs : BeginBatchOf(t, ks)

\* The INSERT ... ON CONFLICT DO NOTHING RETURNING id of either function and
\* is_duplicate = result is None; in the batch, the two local counters.
Insert(t) ==
    /\ pc[t] = "insert"
    /\ ~Blocked(t)
    /\ LET e == evs[t][idx[t]]
           d == InsertConflicts(t, e)
       IN /\ insRows' = [insRows EXCEPT ![t] = RowsAfterInsert(t, e)]
          /\ is_duplicate' = [is_duplicate EXCEPT ![t] = Append(@, d)]
          /\ IF kind[t] = "batch"
             THEN /\ processed' = [processed EXCEPT ![t] = IF d THEN @ ELSE @ + 1]
                  /\ duplicates' = [duplicates EXCEPT ![t] = IF d THEN @ + 1 ELSE @]
                  /\ pc' = [pc EXCEPT ![t] = "audit"]
             ELSE /\ UNCHANGED <<processed, duplicates>>
                  /\ pc' = [pc EXCEPT ![t] = "stats"]
    /\ UNCHANGED <<storeVars, kind, evs, worker_id, idx, newStats, audRows,
                   result, overlap, faults>>

\* UPDATE stats ... WHERE id = 1.
UpdateStatsRow(t) ==
    /\ pc[t] = "stats"
    /\ ~Blocked(t)
    /\ LET delta == IF kind[t] = "single"
                    THEN StatsDeltaSingle(is_duplicate[t][1])
                    ELSE StatsDeltaBatch(Len(evs[t]), processed[t], duplicates[t])
       IN newStats' = [newStats EXCEPT ![t] = UpdateStats(stats, delta)]
    /\ pc' = [pc EXCEPT ![t] = IF kind[t] = "single" THEN "audit" ELSE "commit"]
    /\ UNCHANGED <<storeVars, kind, evs, worker_id, idx, is_duplicate, processed,
                   duplicates, insRows, audRows, result, overlap, faults>>

\* INSERT INTO audit_log; in the batch, the loop then goes to the next event
\* or leaves for the UPDATE stats.
InsertAudit(t) ==
    /\ pc[t] = "audit"
    /\ LET e == evs[t][idx[t]]
           d == is_duplicate[t][idx[t]]
       IN audRows' = [audRows EXCEPT
              ![t] = @ (+) SetToBag({AuditRow(e, d, worker_id[t])})]
    /\ IF kind[t] = "single"
       THEN /\ pc' = [pc EXCEPT ![t] = "commit"]
            /\ UNCHANGED idx
       ELSE IF idx[t] < Len(evs[t])
            THEN /\ pc' = [pc EXCEPT ![t] = "insert"]
                 /\ idx' = [idx EXCEPT ![t] = @ + 1]
            ELSE /\ pc' = [pc EXCEPT ![t] = "stats"]
                 /\ UNCHANGED idx
    /\ UNCHANGED <<storeVars, kind, evs, worker_id, is_duplicate, processed,
                   duplicates, insRows, newStats, result, overlap, faults>>

\* transaction(): tr.commit() on leaving the block; the function returns.
Commit(t) ==
    /\ pc[t] = "commit"
    /\ events' = CommittedEvents(t)
    /\ stats' = CommittedStats(t)
    /\ audit_log' = CommittedAudit(t)
    /\ insRows' = [insRows EXCEPT ![t] = {}]
    /\ newStats' = [newStats EXCEPT ![t] = NoRow]
    /\ audRows' = [audRows EXCEPT ![t] = EmptyBag]
    /\ result' = [result EXCEPT ![t] = Returned(t)]
    /\ pc' = [pc EXCEPT ![t] = "committed"]
    /\ UNCHANGED <<kind, evs, worker_id, idx, is_duplicate, processed,
                   duplicates, overlap, faults>>

\* transaction(): except Exception: tr.rollback(); raise.
Rollback(t) ==
    /\ events' = RolledBackEvents(t)
    /\ stats' = RolledBackStats(t)
    /\ audit_log' = RolledBackAudit(t)
    /\ insRows' = [insRows EXCEPT ![t] = {}]
    /\ newStats' = [newStats EXCEPT ![t] = NoRow]
    /\ audRows' = [audRows EXCEPT ![t] = EmptyBag]
    /\ result' = [result EXCEPT ![t] = Error]
    /\ pc' = [pc EXCEPT ![t] = "failed"]
    /\ UNCHANGED <<kind, evs, worker_id, idx, is_duplicate, processed,
                   duplicates, overlap>>

\* A statement (or the commit) of t fails with a transient store error:
\* connection reset, statement timeout.
StoreError(t) ==
    /\ InFlight(t)
    /\ faults < MaxFaults
    /\ faults' = faults + 1
    /\ Rollback(t)

\* The store finds t in a cycle of waiting transactions and fails its
\* statement with a deadlock error.
DeadlockAbort(t) ==
    /\ InFlight(t)
    /\ Deadlocked(t)
    /\ UNCHANGED faults
    /\ Rollback(t)

\* The admissions alone, whoever calls them: the worker pool stays as it is.
Next ==
    \E t \in Txns :
        \/ BeginSingle(t) /\ UNCHANGED <<poolVars, apiVars>>
        \/ BeginBatch(t) /\ UNCHANGED <<poolVars, apiVars>>
        \/ Insert(t) /\ UNCHANGED <<poolVars, apiVars>>
        \/ UpdateStatsRow(t) /\ UNCHANGED <<poolVars, apiVars>>
        \/ InsertAudit(t) /\ UNCHANGED <<poolVars, apiVars>>
        \/ Commit(t) /\ UNCHANGED <<poolVars, apiVars>>
        \/ StoreError(t) /\ UNCHANGED <<poolVars, apiVars>>
        \/ DeadlockAbort(t) /\ UNCHANGED <<poolVars, apiVars>>

Spec == Init /\ [][Next]_vars

\* ------------------------------------------- single-event admissions only
\* publish(sync=true) with one event: process_events_batch of a list of one.
BeginOne(t) == BeginBatch(t) /\ Len(evs'[t]) = 1

\* One statement of admission t reaches the store and is executed.
Statement(t) ==
    /\ Insert(t) \/ UpdateStatsRow(t) \/ InsertAudit(t) \/ Commit(t)
    /\ UNCHANGED <<poolVars, apiVars>>

\* Concurrent admissions of one event each, by workers and by synchronous
\* submitters, on a store that raises no error.  The store executes a
\* statement that is not waiting for a lock.
NextOne ==
    \E t \in Txns :
        \/ BeginSingle(t) /\ UNCHANGED <<poolVars, apiVars>>
        \/ BeginOne(t) /\ UNCHANGED <<poolVars, apiVars>>
        \/ Insert(t) /\ UNCHANGED <<poolVars, apiVars>>
        \/ UpdateStatsRow(t) /\ UNCHANGED <<poolVars, apiVars>>
        \/ InsertAudit(t) /\ UNCHANGED <<poolVars, apiVars>>
        \/ Commit(t) /\ UNCHANGED <<poolVars, apiVars>>

SpecOne ==
    /\ Init
    /\ [][NextOne]_vars
    /\ \A t \in Txns : WF_vars(Statement(t))

\* ------------------------------------------------------- event validation
\* Field(min_length=1): the shortest topic or event_id.
MinLength == 1

\* The characters of the inputs: the space is the whitespace str.strip()
\* removes.
Whitespace == {" "}

\* str.strip(): drop the leading and the trailing whitespace.
RECURSIVE StripLeft(_)
StripLeft(s) ==
    IF s # <<>> /\ Head(s) \in Whitespace THEN StripLeft(Tail(s)) ELSE s

RECURSIVE StripRight(_)
StripRight(s) ==
    IF s # <<>> /\ s[Len(s)] \in Whitespace
    THEN StripRight(SubSeq(s, 1, Len(s) - 1))
    ELSE s

StripNothing(s) == s

Strip(s) == StripRight(StripLeft(s))

\* Field(min_length=1, max_length=255): the constraints of the str type,
\* checked on the value as it was sent.
FieldConstraints(s) == Len(s) >= MinLength /\ Len(s) <= MaxLength

\* validate_topic, validate_event_id: field validators that run after the
\* constraints of the type: if not v.strip(): raise ValueError; return
\* v.strip().
InvalidField == [ok |-> FALSE, value |-> <<>>]

ValidateField(s) ==
    IF ~FieldConstraints(s) THEN InvalidField
    ELSE IF Strip(s) = <<>> THEN InvalidField
    ELSE [ok |-> TRUE, value |-> Strip(s)]

\* Event(**data): both fields are validated (the other fields of the inputs
\* are well formed); the Event holds the values the validators returned.
InvalidEvent == [ok |-> FALSE, topic |-> <<>>, event_id |-> <<>>]

ValidateEvent(raw) ==
    LET t == ValidateField(raw.topic)
        i == ValidateField(raw.event_id)
    IN IF t.ok /\ i.ok
       THEN [ok |-> TRUE, topic |-> t.value, event_id |-> i.value]
       ELSE InvalidEvent

\* ------------------------------------------------------- the worker pool
\* A worker task is suspended at one await of worker(): "created" (the task
\* exists and has not run yet), "subscribe", "poll" (wait_for(get_message)),
\* "admit" (process_event), "sleep" (the backoff), "unsubscribe", "close";
\* "done" when the task has finished.  Its PubSub object is "none" before
\* client.pubsub(), then "open", "subscribed", "unsubscribed", "closed".

\* while not _shutdown_event.is_set(): where the next iteration goes.
LoopCheckIgnoresFlag == "poll"

LoopCheck == IF shutdown THEN "unsubscribe" ELSE "poll"

\* Admissions a behaviour still needs for what is already delivered.
SlotsInUse ==
    Cardinality({t \in Txns : pc[t] # "idle"})
        + SumOver([w \in Workers |-> Len(inbox[w])], Workers)

Subscribers == {w \in Workers : pubsub[w] = "subscribed"}

\* PUBLISH on a pub/sub channel: every subscription gets the message.
RecipientsNone == {}

RecipientsOneConsumer ==
    IF Subscribers = {} THEN {} ELSE {CHOOSE w \in Subscribers : TRUE}

Recipients == Subscribers

\* start_workers: one task per worker, stored in _workers.  The lifespan
\* calls it once, at startup.
StartWorkers ==
    /\ \A w \in Workers : wpc[w] = "none"
    /\ workers' = Workers
    /\ wpc' = [w \in Workers |-> "created"]
    /\ lifespan' = [lifespan EXCEPT !.at = "yield"]
    /\ UNCHANGED <<storeVars, txnVars, http, pool, redis_client, shutdown, pubsub,
                   inbox, cancelReq, wtxn, spc, published>>

\* The task's first step: get_redis(), client.pubsub(), and the await of
\* pubsub.subscribe.
WorkerRun(w) ==
    /\ wpc[w] = "created"
    /\ ~cancelReq[w]
    /\ pubsub' = [pubsub EXCEPT ![w] = "open"]
    /\ wpc' = [wpc EXCEPT ![w] = "subscribe"]
    /\ UNCHANGED <<storeVars, txnVars, apiVars, shutdown, workers, inbox, cancelReq, wtxn,
                   spc, published>>

\* pubsub.subscribe returns; the first check of the flag.
Subscribe(w) ==
    /\ wpc[w] = "subscribe"
    /\ ~cancelReq[w]
    /\ pubsub' = [pubsub EXCEPT ![w] = "subscribed"]
    /\ wpc' = [wpc EXCEPT ![w] = LoopCheck]
    /\ UNCHANGED <<storeVars, txnVars, apiVars, shutdown, workers, inbox, cancelReq, wtxn,
                   spc, published>>

\* publish(sync=false) of one event -> publish_events_batch: the channel
\* hands the message to every subscription that exists at that moment, and
\* the submitter is answered received 1, processed 0, duplicates 0.
PublishAsync(k) ==
    /\ \E w \in Workers : wpc[w] # "none"
    /\ Len(published) < MaxPublish
    /\ SlotsInUse + Cardinality(Subscribers) <= NTxns
    /\ inbox' = [w \in Workers |->
                    IF w \in Recipients THEN Append(inbox[w], k) ELSE inbox[w]]
    /\ published' = Append(published,
                           [key |-> k, receivers |-> Subscribers,
                            response |-> PublishResponse(1, 0, 0)])
    /\ UNCHANGED <<storeVars, txnVars, apiVars, shutdown, workers, wpc, pubsub, cancelReq,
                   wtxn, spc>>

\* What other publishers put on the channel: data json.loads rejects
\* ("text"), JSON that is no object ("array"), and an object whose topic is
\* empty.
ForeignData ==
    {[data |-> "text"], [data |-> "array"],
     [topic |-> <<>>, event_id |-> <<"x">>]}

IsObject(m) == "topic" \in DOMAIN m

\* event_data = json.loads(message['data']); event = Event(**event_data):
\* "event", or the exception raised.  JSONDecodeError and pydantic's
\* ValidationError are ValueErrors; ** on a value that is no mapping raises
\* TypeError.
DecodeOutcomeNoValidation(m) ==
    IF IsObject(m) THEN "event"
    ELSE IF m.data = "array" THEN "TypeError"
    ELSE "ValueError"

DecodeOutcome(m) ==
    IF IsObject(m)
    THEN IF ValidateEvent(m).ok THEN "event" ELSE "ValueError"
    ELSE IF m.data = "array" THEN "TypeError"
    ELSE "ValueError"

\* get_message returns a message, it decodes to an Event, and the worker
\* calls process_event(event, worker_id).
Receive(w) ==
    /\ wpc[w] = "poll"
    /\ ~cancelReq[w]
    /\ inbox[w] # <<>>
    /\ DecodeOutcome(Head(inbox[w])) = "event"
    /\ \E t \in Txns :
        /\ BeginSingle(t)
        /\ evs'[t][1].topic = ValidateEvent(Head(inbox[w])).topic
        /\ evs'[t][1].event_id = ValidateEvent(Head(inbox[w])).event_id
        /\ worker_id'[t] = WorkerName(w)
        /\ wtxn' = [wtxn EXCEPT ![w] = t]
    /\ inbox' = [inbox EXCEPT ![w] = Tail(@)]
    /\ wpc' = [wpc EXCEPT ![w] = "admit"]
    /\ UNCHANGED <<apiVars, shutdown, workers, pubsub, cancelReq, spc, published>>

\* get_message returns a message that does not decode to an Event: except
\* (json.JSONDecodeError, ValueError): warning, continue.
ReceiveInvalid(w) ==
    /\ wpc[w] = "poll"
    /\ ~cancelReq[w]
    /\ inbox[w] # <<>>
    /\ DecodeOutcome(Head(inbox[w])) = "ValueError"
    /\ inbox' = [inbox EXCEPT ![w] = Tail(@)]
    /\ wpc' = [wpc EXCEPT ![w] = LoopCheck]
    /\ UNCHANGED <<storeVars, txnVars, apiVars, shutdown, workers, pubsub,
                   cancelReq, wtxn, spc, published>>

\* get_message returns JSON that is no object: the TypeError is caught by
\* except Exception, which logs it and awaits sleep(0.1).
ReceiveRaised(w) ==
    /\ wpc[w] = "poll"
    /\ ~cancelReq[w]
    /\ inbox[w] # <<>>
    /\ DecodeOutcome(Head(inbox[w])) = "TypeError"
    /\ inbox' = [inbox EXCEPT ![w] = Tail(@)]
    /\ wpc' = [wpc EXCEPT ![w] = "sleep"]
    /\ UNCHANGED <<storeVars, txnVars, apiVars, shutdown, workers, pubsub,
                   cancelReq, wtxn, spc, published>>

\* get_message returns None after its timeout: continue, and the flag is
\* checked again.
PollTimeout(w) ==
    /\ wpc[w] = "poll"
    /\ ~cancelReq[w]
    /\ inbox[w] = <<>>
    /\ wpc' = [wpc EXCEPT ![w] = LoopCheck]
    /\ UNCHANGED <<storeVars, txnVars, apiVars, shutdown, workers, pubsub, inbox, cancelReq,
                   wtxn, spc, published>>

\* process_event returned (True, is_duplicate): next iteration.
AdmitReturned(w) ==
    /\ wpc[w] = "admit"
    /\ ~cancelReq[w]
    /\ pc[wtxn[w]] = "committed"
    /\ wtxn' = [wtxn EXCEPT ![w] = 0]
    /\ wpc' = [wpc EXCEPT ![w] = LoopCheck]
    /\ UNCHANGED <<storeVars, txnVars, apiVars, shutdown, workers, pubsub, inbox, cancelReq,
                   spc, published>>

\* process_event raised: except Exception, and the await of sleep(0.1).
AdmitRaised(w) ==
    /\ wpc[w] = "admit"
    /\ ~cancelReq[w]
    /\ pc[wtxn[w]] = "failed"
    /\ wtxn' = [wtxn EXCEPT ![w] = 0]
    /\ wpc' = [wpc EXCEPT ![w] = "sleep"]
    /\ UNCHANGED <<storeVars, txnVars, apiVars, shutdown, workers, pubsub, inbox, cancelReq,
                   spc, published>>

\* The backoff is over: next iteration.
SleepDone(w) ==
    /\ wpc[w] = "sleep"
    /\ ~cancelReq[w]
    /\ wpc' = [wpc EXCEPT ![w] = LoopCheck]
    /\ UNCHANGED <<storeVars, txnVars, apiVars, shutdown, workers, pubsub, inbox, cancelReq,
                   wtxn, spc, published>>

\* finally: pubsub.unsubscribe returns; what was delivered and not read is
\* dropped.
Unsubscribe(w) ==
    /\ wpc[w] = "unsubscribe"
    /\ ~cancelReq[w]
    /\ pubsub' = [pubsub EXCEPT
                     ![w] = IF @ = "subscribed" THEN "unsubscribed" ELSE @]
    /\ inbox' = [inbox EXCEPT ![w] = <<>>]
    /\ wpc' = [wpc EXCEPT ![w] = "close"]
    /\ UNCHANGED <<storeVars, txnVars, apiVars, shutdown, workers, cancelReq, wtxn, spc,
                   published>>

\* finally: pubsub.close() returns and the task finishes.
Close(w) ==
    /\ wpc[w] = "close"
    /\ ~cancelReq[w]
    /\ pubsub' = [pubsub EXCEPT ![w] = "closed"]
    /\ wpc' = [wpc EXCEPT ![w] = "done"]
    /\ UNCHANGED <<storeVars, txnVars, apiVars, shutdown, workers, inbox, cancelReq, wtxn,
                   spc, published>>

\* A CancelledError raised inside process_event: transaction() catches only
\* Exception, so it does not run tr.rollback(); the connection goes back to
\* the pool, which resets it, and the open transaction is rolled back.
CancelledResult == [status |-> "cancelled"]

Abandon(t) ==
    /\ events' = RolledBackEvents(t)
    /\ stats' = RolledBackStats(t)
    /\ audit_log' = RolledBackAudit(t)
    /\ insRows' = [insRows EXCEPT ![t] = {}]
    /\ newStats' = [newStats EXCEPT ![t] = NoRow]
    /\ audRows' = [audRows EXCEPT ![t] = EmptyBag]
    /\ result' = [result EXCEPT ![t] = CancelledResult]
    /\ pc' = [pc EXCEPT ![t] = "cancelled"]
    /\ UNCHANGED <<kind, evs, worker_id, idx, is_duplicate, processed,
                   duplicates, overlap, faults>>

\* Task.cancel() on a task that has not run yet: the coroutine is never
\* entered, so neither the try nor the finally of worker() runs.
CancelledBeforeRun(w) ==
    /\ cancelReq[w]
    /\ wpc[w] = "created"
    /\ wpc' = [wpc EXCEPT ![w] = "done"]
    /\ cancelReq' = [cancelReq EXCEPT ![w] = FALSE]
    /\ UNCHANGED <<storeVars, txnVars, apiVars, shutdown, workers, pubsub, inbox, wtxn,
                   spc, published>>

\* CancelledError at the await of pubsub.subscribe (outside the inner try):
\* the finally runs.  The SUBSCRIBE may or may not have reached the channel.
CancelledInSubscribe(w) ==
    /\ cancelReq[w]
    /\ wpc[w] = "subscribe"
    /\ \E p \in {"open", "subscribed"} : pubsub' = [pubsub EXCEPT ![w] = p]
    /\ wpc' = [wpc EXCEPT ![w] = "unsubscribe"]
    /\ cancelReq' = [cancelReq EXCEPT ![w] = FALSE]
    /\ UNCHANGED <<storeVars, txnVars, apiVars, shutdown, workers, inbox, wtxn, spc,
                   published>>

\* CancelledError at the await of get_message (except CancelledError: break)
\* or at the await of the backoff sleep (it leaves the handler and the loop):
\* the finally runs.
CancelledInLoop(w) ==
    /\ cancelReq[w]
    /\ wpc[w] \in {"poll", "sleep"}
    /\ wpc' = [wpc EXCEPT ![w] = "unsubscribe"]
    /\ cancelReq' = [cancelReq EXCEPT ![w] = FALSE]
    /\ UNCHANGED <<storeVars, txnVars, apiVars, shutdown, workers, pubsub, inbox, wtxn,
                   spc, published>>

\* CancelledError at an await inside process_event, then except
\* CancelledError: break.  A commit that was under way may have been applied.
CancelledInAdmit(w) ==
    /\ cancelReq[w]
    /\ wpc[w] = "admit"
    /\ \/ InFlight(wtxn[w]) /\ Abandon(wtxn[w])
       \/ Commit(wtxn[w])
       \/ ~InFlight(wtxn[w]) /\ UNCHANGED <<storeVars, txnVars>>
    /\ wtxn' = [wtxn EXCEPT ![w] = 0]
    /\ wpc' = [wpc EXCEPT ![w] = "unsubscribe"]
    /\ cancelReq' = [cancelReq EXCEPT ![w] = FALSE]
    /\ UNCHANGED <<apiVars, shutdown, workers, pubsub, inbox, spc, published>>

\* CancelledError at an await of the finally block: the block is left, the
\* rest of it does not run, and the task finishes.  The call that was under
\* way may or may not have taken effect.
CancelledInFinally(w) ==
    /\ cancelReq[w]
    /\ wpc[w] \in {"unsubscribe", "close"}
    /\ \E p \in {pubsub[w],
                 IF wpc[w] = "close" THEN "closed"
                 ELSE IF pubsub[w] = "subscribed" THEN "unsubscribed"
                 ELSE pubsub[w]} :
           pubsub' = [pubsub EXCEPT ![w] = p]
    /\ inbox' = [inbox EXCEPT ![w] = <<>>]
    /\ wpc' = [wpc EXCEPT ![w] = "done"]
    /\ cancelReq' = [cancelReq EXCEPT ![w] = FALSE]
    /\ UNCHANGED <<storeVars, txnVars, apiVars, shutdown, workers, wtxn, spc, published>>

\* The tasks asyncio.gather(*_workers) waits for have all finished.
GatheredAny(S) == \E w \in S : wpc[w] = "done"

Gathered(S) == \A w \in S : wpc[w] = "done"

\* stop_workers up to its await: set the flag; if _workers is not empty,
\* cancel() every task of the list (no effect on a finished task) and wait
\* for them.  With an empty list the call returns at once.  Who calls it is
\* the caller's part of the step.
StopWorkers(s) ==
    /\ spc[s] = "idle"
    /\ \A r \in Stops : r < s => spc[r] # "idle"
    /\ shutdown' = TRUE
    /\ IF workers # {}
       THEN /\ cancelReq' = [w \in Workers |->
                                IF w \in workers /\ wpc[w] # "done" THEN TRUE
                                ELSE cancelReq[w]]
            /\ spc' = [spc EXCEPT ![s] = "gather"]
       ELSE /\ UNCHANGED cancelReq
            /\ spc' = [spc EXCEPT ![s] = "returned"]
    /\ UNCHANGED <<storeVars, txnVars, http, pool, redis_client, workers, wpc,
                   pubsub, inbox, wtxn, published>>

\* gather returns: _workers = [] and the call returns.
StopReturned(s) ==
    /\ spc[s] = "gather"
    /\ Gathered(Workers)
    /\ workers' = {}
    /\ spc' = [spc EXCEPT ![s] = "returned"]
    /\ UNCHANGED <<storeVars, txnVars, apiVars, shutdown, wpc, pubsub, inbox, cancelReq,
                   wtxn, published>>

\* The worker that called admission t is still waiting for its statements.
Awaited(t) == \A w \in Workers : wtxn[w] = t => ~cancelReq[w]

WorkerStep(w) ==
    \/ WorkerRun(w) \/ Subscribe(w) \/ Receive(w) \/ PollTimeout(w)
    \/ AdmitReturned(w) \/ AdmitRaised(w) \/ SleepDone(w)
    \/ Unsubscribe(w) \/ Close(w)
    \/ CancelledBeforeRun(w) \/ CancelledInSubscribe(w) \/ CancelledInLoop(w)
    \/ CancelledInAdmit(w) \/ CancelledInFinally(w)

\* The service: the worker pool fed by asynchronous submissions, the store
\* statements of the workers' admissions, store errors, and shutdown.
PoolNext ==
    \/ StartWorkers
    \/ \E k \in EventKey : PublishAsync(k)
    \/ \E w \in Workers :
        \/ WorkerRun(w)
        \/ Subscribe(w)
        \/ Receive(w)
        \/ PollTimeout(w)
        \/ AdmitReturned(w)
        \/ AdmitRaised(w)
        \/ SleepDone(w)
        \/ Unsubscribe(w)
        \/ Close(w)
        \/ CancelledBeforeRun(w)
        \/ CancelledInSubscribe(w)
        \/ CancelledInLoop(w)
        \/ CancelledInAdmit(w)
        \/ CancelledInFinally(w)
    \/ \E t \in Txns :
        \/ Awaited(t) /\ Insert(t) /\ UNCHANGED <<poolVars, apiVars>>
        \/ Awaited(t) /\ UpdateStatsRow(t) /\ UNCHANGED <<poolVars, apiVars>>
        \/ Awaited(t) /\ InsertAudit(t) /\ UNCHANGED <<poolVars, apiVars>>
        \/ Awaited(t) /\ Commit(t) /\ UNCHANGED <<poolVars, apiVars>>
        \/ Awaited(t) /\ StoreError(t) /\ UNCHANGED <<poolVars, apiVars>>
    \/ \E s \in Stops :
        \/ StopWorkers(s) /\ UNCHANGED lifespan
        \/ StopReturned(s)

\* The event loop runs every task that can run, and the store and the
\* channel answer every call.
SpecPool ==
    /\ Init
    /\ [][PoolNext]_vars
    /\ \A w \in Workers : WF_vars(WorkerStep(w))
    /\ \A t \in Txns : WF_vars(Awaited(t) /\ Statement(t))
    /\ \A s \in Stops : WF_vars(StopReturned(s))

\* The transport path while the service is up: the store raises no error and
\* nobody stops the pool.
FanoutStep(w) ==
    \/ WorkerRun(w) \/ Subscribe(w) \/ Receive(w) \/ PollTimeout(w)
    \/ AdmitReturned(w)

FanoutNext ==
    \/ StartWorkers
    \/ \E k \in EventKey : PublishAsync(k)
    \/ \E w \in Workers :
        \/ WorkerRun(w)
        \/ Subscribe(w)
        \/ Receive(w)
        \/ PollTimeout(w)
        \/ AdmitReturned(w)
    \/ \E t \in Txns :
        \/ Insert(t) /\ UNCHANGED <<poolVars, apiVars>>
        \/ UpdateStatsRow(t) /\ UNCHANGED <<poolVars, apiVars>>
        \/ InsertAudit(t) /\ UNCHANGED <<poolVars, apiVars>>
        \/ Commit(t) /\ UNCHANGED <<poolVars, apiVars>>

SpecFanout ==
    /\ Init
    /\ [][FanoutNext]_vars
    /\ \A w \in Workers : WF_vars(FanoutStep(w))
    /\ \A t \in Txns : WF_vars(Statement(t))

\* --------------------------------------------- the worker's receive loop
\* Another publisher (the publisher service in its redis mode) publishes data
\* that is no valid event; one such message is under way at a time.
PublishForeign(m) ==
    /\ Subscribers # {}
    /\ \A w \in Workers :
          \A i \in 1..Len(inbox[w]) : inbox[w][i] \notin ForeignData
    /\ inbox' = [w \in Workers |->
                    IF w \in Recipients THEN Append(inbox[w], m) ELSE inbox[w]]
    /\ UNCHANGED <<storeVars, txnVars, apiVars, shutdown, workers, wpc, pubsub,
                   cancelReq, wtxn, spc, published>>

\* _shutdown_event.set(), the first statement of stop_workers, on its own:
\* the cancel() calls that follow it are left out, to see what the flag alone
\* makes the workers do.
SetShutdownFlag ==
    /\ ~shutdown
    /\ shutdown' = TRUE
    /\ UNCHANGED <<storeVars, txnVars, apiVars, workers, wpc, pubsub, inbox,
                   cancelReq, wtxn, spc, published>>

LoopStep(w) ==
    \/ WorkerRun(w) \/ Subscribe(w) \/ Receive(w) \/ ReceiveInvalid(w)
    \/ ReceiveRaised(w) \/ PollTimeout(w) \/ AdmitReturned(w) \/ AdmitRaised(w)
    \/ SleepDone(w) \/ Unsubscribe(w) \/ Close(w)

\* The worker of consumer.py with every input of its loop: events and
\* foreign data on the channel, store errors in its admissions, and the
\* flag.  No task is cancelled.
LoopNext ==
    \/ StartWorkers
    \/ \E k \in EventKey : PublishAsync(k)
    \/ \E m \in ForeignData : PublishForeign(m)
    \/ \E w \in Workers :
        \/ WorkerRun(w)
        \/ Subscribe(w)
        \/ Receive(w)
        \/ ReceiveInvalid(w)
        \/ ReceiveRaised(w)
        \/ PollTimeout(w)
        \/ AdmitReturned(w)
        \/ AdmitRaised(w)
        \/ SleepDone(w)
        \/ Unsubscribe(w)
        \/ Close(w)
    \/ \E t \in Txns :
        \/ Insert(t) /\ UNCHANGED <<poolVars, apiVars>>
        \/ UpdateStatsRow(t) /\ UNCHANGED <<poolVars, apiVars>>
        \/ InsertAudit(t) /\ UNCHANGED <<poolVars, apiVars>>
        \/ Commit(t) /\ UNCHANGED <<poolVars, apiVars>>
        \/ StoreError(t) /\ UNCHANGED <<poolVars, apiVars>>
    \/ SetShutdownFlag

\* The event loop runs every task that can run (get_message and sleep return
\* after their timeouts), and the store answers every statement.
SpecLoop ==
    /\ Init
    /\ [][LoopNext]_vars
    /\ \A w \in Workers : WF_vars(LoopStep(w))
    /\ \A t \in Txns : WF_vars(Statement(t))

\* ------------------------------------------------------------ the HTTP API
\* A request the API has taken: the endpoint, its input, the status of the
\* response (0 while the handler is still running), what the handler's first
\* statement returned, the body of the response, and, for a synchronous
\* submission, the admission the handler called.
HttpEntry(op, arg, status, part, body, txn) ==
    [op |-> op, arg |-> arg, status |-> status, part |-> part, body |-> body,
     txn |-> txn]

\* ------------------------------------------------------------ get_stats
\* SELECT received, unique_processed, duplicate_dropped FROM stats WHERE
\* id = 1: one statement, on a connection of its own and outside any
\* transaction, so it returns the committed row.
SelectStatsRow == stats

\* SELECT topic, COUNT(*) FROM events GROUP BY topic: a second statement.
SelectTopicCountsTopOnly ==
    LET tops == {r.topic : r \in events}
        top == IF tops = {} THEN {} ELSE {CHOOSE tp \in tops : TRUE}
    IN [tp \in top |-> Cardinality({r \in events : r.topic = tp})]

SelectTopicCounts ==
    [tp \in {r.topic : r \in events} |->
        Cardinality({r \in events : r.topic = tp})]

NoTopics == <<>>

\* The dictionary get_stats returns, from the row and the topic rows it
\* fetched.
StatsSnapshotRereadsDuplicates(row, topics) ==
    [received |-> row.received,
     unique_processed |-> row.unique_processed,
     duplicate_dropped |-> stats.duplicate_dropped,
     topics |-> topics,
     topic_count |-> Cardinality(DOMAIN topics)]

StatsSnapshot(row, topics) ==
    [received |-> row.received,
     unique_processed |-> row.unique_processed,
     duplicate_dropped |-> row.duplicate_dropped,
     topics |-> topics,
     topic_count |-> Cardinality(DOMAIN topics)]

\* GET /stats -> get_stats: the first statement is executed.
GetStatsRow ==
    /\ Len(http) < MaxReads
    /\ http' = Append(http, HttpEntry("stats", <<>>, 0, SelectStatsRow,
                                      NoResult, 0))
    /\ UNCHANGED <<storeVars, txnVars, poolVars, appVars>>

\* get_stats: the second statement is executed, and the response is built
\* from what the two statements returned.
GetStatsTopics ==
    \E i \in DOMAIN http :
        /\ http[i].op = "stats"
        /\ http[i].status = 0
        /\ http' = [http EXCEPT
               ![i] = HttpEntry("stats", <<>>, 200, http[i].part,
                                StatsSnapshot(http[i].part, SelectTopicCounts),
                                0)]
        /\ UNCHANGED <<storeVars, txnVars, poolVars, appVars>>

\* Readers of the statistics while one-event admissions run and commit.
StatsNext ==
    \/ \E t \in Txns :
        \/ BeginSingle(t) /\ UNCHANGED <<poolVars, apiVars>>
        \/ BeginOne(t) /\ UNCHANGED <<poolVars, apiVars>>
        \/ Insert(t) /\ UNCHANGED <<poolVars, apiVars>>
        \/ UpdateStatsRow(t) /\ UNCHANGED <<poolVars, apiVars>>
        \/ InsertAudit(t) /\ UNCHANGED <<poolVars, apiVars>>
        \/ Commit(t) /\ UNCHANGED <<poolVars, apiVars>>
    \/ GetStatsRow
    \/ GetStatsTopics

SpecStats == Init /\ [][StatsNext]_vars

\* ------------------------------------------------- /publish and /events
\* BatchPublishRequest.events: Field(min_length=1, max_length=1000).  The
\* largest list the API accepts is the largest batch the store is fed with
\* (MaxBatch, which stands for 1000).
MinEvents == 1

\* Query(100, ge=1, le=1000): the smallest limit of /events.
MinLimit == 1

\* The strings of at most n characters over the characters C.
Strings(C, n) == UNION {[1..m -> C] : m \in 0..n}

\* The topics and event_ids submitters send: every string of up to one
\* character more than the limit, with and without whitespace around and
\* inside.
RawTopics == Strings({" ", "a"}, MaxLength + 1)
RawIds == Strings({" ", "x"}, MaxLength + 1)

\* The bodies of POST /publish: one Event, or {events: [...]} with 0 to one
\* more than the largest number of events.
RawEvents ==
    {[topic |-> tp, event_id |-> <<"x">>] : tp \in RawTopics}
        \cup {[topic |-> <<"a">>, event_id |-> id] : id \in RawIds}

BatchRawEvents ==
    {[topic |-> <<" ", "a">>, event_id |-> <<"x">>],
     [topic |-> <<" ">>, event_id |-> <<"x">>]}

Bodies ==
    {[batch |-> FALSE, events |-> <<e>>] : e \in RawEvents}
        \cup {[batch |-> TRUE, events |-> es] :
                 es \in UNION {[1..n -> BatchRawEvents] : n \in 0..(MaxBatch + 1)}}

\* The constraints of BatchPublishRequest.events.
BatchConstraintsNoMinimum(n) == n <= MaxBatch

BatchConstraints(n) == n >= MinEvents /\ n <= MaxBatch

\* request: Union[Event, BatchPublishRequest]: FastAPI validates the body
\* before the handler runs.
BodyOk(b) ==
    /\ b.batch => BatchConstraints(Len(b.events))
    /\ \A i \in DOMAIN b.events : ValidateEvent(b.events[i]).ok

\* events = [request] or request.events: the validated events.
ParsedKeys(b) ==
    [i \in DOMAIN b.events |->
        [topic |-> ValidateEvent(b.events[i]).topic,
         event_id |-> ValidateEvent(b.events[i]).event_id]]

\* The body does not validate: FastAPI answers 422 and publish() is not
\* called.
PublishRejected(b, sync) ==
    /\ Len(http) < MaxRequests
    /\ ~BodyOk(b)
    /\ http' = Append(http, HttpEntry("publish", [body |-> b, sync |-> sync],
                                      422, NoResult, NoResult, 0))
    /\ UNCHANGED <<storeVars, txnVars, poolVars, appVars>>

\* The pipeline of publish_events_batch: one PUBLISH per event, in order.
RECURSIVE AppendAll(_, _)
AppendAll(q, ks) ==
    IF ks = <<>> THEN q ELSE AppendAll(Append(q, Head(ks)), Tail(ks))

\* publish(sync=true): process_events_batch(events, "api-sync") is called;
\* the response is built from what it returns when it has committed.
PublishSyncAlsoQueued(b, t) ==
    /\ Len(http) < MaxRequests
    /\ BodyOk(b)
    /\ BeginBatchOf(t, ParsedKeys(b))
    /\ http' = Append(http, HttpEntry("publish", [body |-> b, sync |-> TRUE],
                                      0, NoResult, NoResult, t))
    /\ inbox' = [w \in Workers |->
                    IF w \in Recipients THEN AppendAll(inbox[w], ParsedKeys(b))
                    ELSE inbox[w]]
    /\ UNCHANGED <<shutdown, workers, wpc, pubsub, cancelReq, wtxn, spc,
                   published, appVars>>

PublishSync(b, t) ==
    /\ Len(http) < MaxRequests
    /\ BodyOk(b)
    /\ BeginBatchOf(t, ParsedKeys(b))
    /\ http' = Append(http, HttpEntry("publish", [body |-> b, sync |-> TRUE],
                                      0, NoResult, NoResult, t))
    /\ UNCHANGED <<poolVars, appVars>>

\* publish(sync=false): publish_events_batch(events) puts every event on the
\* channel, and the response is received N, processed 0, duplicates 0.
PublishQueued(b) ==
    /\ Len(http) < MaxRequests
    /\ BodyOk(b)
    /\ inbox' = [w \in Workers |->
                    IF w \in Recipients THEN AppendAll(inbox[w], ParsedKeys(b))
                    ELSE inbox[w]]
    /\ published' =
          AppendAll(published,
                    [i \in DOMAIN b.events |->
                        [key |-> ParsedKeys(b)[i], receivers |-> Subscribers,
                         response |-> PublishResponse(Len(b.events), 0, 0)]])
    /\ http' = Append(http, HttpEntry("publish", [body |-> b, sync |-> FALSE],
                                      200, NoResult,
                                      PublishResponse(Len(b.events), 0, 0), 0))
    /\ UNCHANGED <<storeVars, txnVars, shutdown, workers, wpc, pubsub, cancelReq,
                   wtxn, spc, appVars>>

\* limit: int = Query(100, ge=1, le=1000).
LimitOk(limit) == limit >= MinLimit /\ limit <= MaxLimit

\* The inputs of GET /events: no topic or the empty one (<<>>, both mean no
\* filter) or a topic, a limit from below the smallest to above the largest,
\* an offset.
TopicFilters == {<<>>, <<"a">>}
Limits == (MinLimit - 1)..(MaxLimit + 1)
Offsets == 0..1

\* WHERE topic = $1, if a topic was given.
Matching(tp) == IF tp = <<>> THEN events ELSE {r \in events : r.topic = tp}

\* ORDER BY timestamp DESC LIMIT $ OFFSET $: the rows left after the offset,
\* at most limit of them.  The timestamps are part of the bodies of the
\* events, so any order of the rows is possible.
PageSize(tp, limit, offset) ==
    LET n == Cardinality(Matching(tp))
        rest == IF n > offset THEN n - offset ELSE 0
    IN IF rest < limit THEN rest ELSE limit

Pages(tp, limit, offset) ==
    {S \in SUBSET Matching(tp) : Cardinality(S) = PageSize(tp, limit, offset)}

\* GET /events with a limit out of range: FastAPI answers 422 and
\* list_events() is not called.
ListEventsRejected(tp, limit, offset) ==
    /\ Len(http) < MaxRequests
    /\ ~LimitOk(limit)
    /\ http' = Append(http,
                      HttpEntry("events",
                                [topic |-> tp, limit |-> limit, offset |-> offset],
                                422, NoResult, NoResult, 0))
    /\ UNCHANGED <<storeVars, txnVars, poolVars, appVars>>

\* list_events -> get_events(topic, limit, offset): the page is selected.
ListEvents(tp, limit, offset) ==
    /\ Len(http) < MaxRequests
    /\ LimitOk(limit)
    /\ \E page \in Pages(tp, limit, offset) :
          http' = Append(http,
                         HttpEntry("events",
                                   [topic |-> tp, limit |-> limit,
                                    offset |-> offset],
                                   0, page, NoResult, 0))
    /\ UNCHANGED <<storeVars, txnVars, poolVars, appVars>>

\* list_events -> get_event_count(topic), and the EventListResponse.
ListEventsCount ==
    \E i \in DOMAIN http :
        /\ http[i].op = "events"
        /\ http[i].status = 0
        /\ http' = [http EXCEPT
               ![i] = HttpEntry("events", http[i].arg, 200, http[i].part,
                                [events |-> http[i].part,
                                 total |-> Cardinality(Matching(http[i].arg.topic))],
                                0)]
        /\ UNCHANGED <<storeVars, txnVars, poolVars, appVars>>

\* The API in front of the store: submissions of every body, synchronous and
\* queued, their admissions, and listings.  No worker is started.
ApiNext ==
    \/ \E b \in Bodies, sync \in BOOLEAN : PublishRejected(b, sync)
    \/ \E b \in Bodies, t \in Txns : PublishSync(b, t)
    \/ \E b \in Bodies : PublishQueued(b)
    \/ \E t \in Txns :
        \/ Insert(t) /\ UNCHANGED <<poolVars, apiVars>>
        \/ UpdateStatsRow(t) /\ UNCHANGED <<poolVars, apiVars>>
        \/ InsertAudit(t) /\ UNCHANGED <<poolVars, apiVars>>
        \/ Commit(t) /\ UNCHANGED <<poolVars, apiVars>>
    \/ \E tp \in TopicFilters, limit \in Limits, offset \in Offsets :
        \/ ListEventsRejected(tp, limit, offset)
        \/ ListEvents(tp, limit, offset)
    \/ ListEventsCount

SpecApi == Init /\ [][ApiNext]_vars

\* ------------------------------------------------- reading the history
\* The key of an event or of a row, as the claims name it.
KeyOf(e) == <<e.topic, e.event_id>>

AllKeys == Topics \X EventIds

Committed(t) == pc[t] = "committed"

\* The committed submissions of key k: <<t, i>> is the i-th event of the
\* committed admission t.
Occ(k) ==
    {o \in Txns \X (1..MaxBatch) :
        /\ Committed(o[1])
        /\ o[2] \in DOMAIN evs[o[1]]
        /\ KeyOf(evs[o[1]][o[2]]) = k}

\* Those of them whose insert returned a row (is_duplicate was false).
NewOcc(k) == {o \in Occ(k) : ~is_duplicate[o[1]][o[2]]}

RowsOf(k) == {r \in events : KeyOf(r) = k}

StoredKeys == {KeyOf(r) : r \in events}

AuditRowsOf(k) == {a \in DOMAIN audit_log : KeyOf(a) = k}

\* Number of audit rows among the distinct rows S of the audit log.
AuditCount(S) == SumOver([a \in S |-> audit_log[a]], S)

\* The committed admissions of the single event with key k (process_event, or
\* a synchronous submission of one event).
Solo(k) == {t \in Txns : Committed(t) /\ Len(evs[t]) = 1 /\ KeyOf(evs[t][1]) = k}

\* What the caller was told.
ReportsNew(t) ==
    IF kind[t] = "single"
    THEN result[t].status = "ok" /\ result[t].success /\ ~result[t].is_duplicate
    ELSE result[t].status = "ok" /\ result[t].processed = 1 /\ result[t].duplicates = 0

ReportsDuplicate(t) ==
    IF kind[t] = "single"
    THEN result[t].status = "ok" /\ result[t].success /\ result[t].is_duplicate
    ELSE result[t].status = "ok" /\ result[t].processed = 0 /\ result[t].duplicates = 1

NewIn(t) == Cardinality({i \in DOMAIN is_duplicate[t] : ~is_duplicate[t][i]})

DupIn(t) == Cardinality({i \in DOMAIN is_duplicate[t] : is_duplicate[t][i]})

CommittedTxns == {t \in Txns : Committed(t)}

\* ---------------------------------------------------------------- claims

\* C1: in every committed store state, whatever the interleaving of single
\* and batch admissions and whichever of them failed and rolled back,
\* received = unique_processed + duplicate_dropped.
C1_ReceivedIsUniquePlusDuplicate ==
    stats.received = stats.unique_processed + stats.duplicate_dropped

\* A single and a batch admission committed, another admission failed after
\* its insert, and both a new event and a duplicate were counted.
C1_Witness ==
    /\ \E t \in Txns : pc[t] = "failed" /\ Len(is_duplicate[t]) >= 1
    /\ \E t \in Txns : Committed(t) /\ kind[t] = "single"
    /\ \E t \in Txns : Committed(t) /\ kind[t] = "batch"
    /\ stats.unique_processed >= 1
    /\ stats.duplicate_dropped >= 1

\* C2: a key never has two rows; a key with at least one committed submission
\* (by workers, by sync submitters or both) has exactly one row, and exactly
\* one of its committed submissions was counted in unique_processed, which
\* counts nothing else.
C2_OneRowOneUniqueIncrement ==
    /\ \A k \in AllKeys :
        /\ Cardinality(RowsOf(k)) <= 1
        /\ Occ(k) # {} =>
            /\ Cardinality(RowsOf(k)) = 1
            /\ Cardinality(NewOcc(k)) = 1
    /\ stats.unique_processed = Cardinality(UNION {NewOcc(k) : k \in AllKeys})

\* One key was submitted three times or more, by a worker and by a sync
\* submitter, with admissions in flight at the same time.
C2_Witness ==
    \E k \in AllKeys :
        /\ Cardinality(Occ(k)) >= 3
        /\ \E o \in Occ(k) : kind[o[1]] = "single"
        /\ \E o \in Occ(k) : kind[o[1]] = "batch"
        /\ overlap >= 2

\* C3: when a key is admitted only by admissions of that single event, and W
\* of them committed, exactly one reported it new and W-1 reported a
\* duplicate, whatever the interleaving.
C3_ExactlyOneAdmitterWins ==
    \A k \in AllKeys :
        (Solo(k) # {} /\ \A o \in Occ(k) : o[1] \in Solo(k)) =>
            /\ Cardinality({t \in Solo(k) : ReportsNew(t)}) = 1
            /\ Cardinality({t \in Solo(k) : ReportsDuplicate(t)}) =
                   Cardinality(Solo(k)) - 1

\* Every admission was of the same single event, all were in flight at the
\* same time, and all committed.
C3_Witness ==
    \E k \in AllKeys :
        /\ Solo(k) = Txns
        /\ overlap = NTxns
        /\ \E t \in Txns : kind[t] = "single"

\* C4: the committed counters are the sum of the deltas of the committed
\* admissions (no update is lost); M committed admissions of M distinct new
\* events leave received = M, unique_processed = M, duplicate_dropped = 0.
C4_NoLostCounterUpdate ==
    /\ stats.received =
           SumOver([t \in Txns |-> Len(evs[t])], CommittedTxns)
    /\ stats.unique_processed =
           SumOver([t \in Txns |-> NewIn(t)], CommittedTxns)
    /\ stats.duplicate_dropped =
           SumOver([t \in Txns |-> DupIn(t)], CommittedTxns)
    /\ ( /\ \A t \in CommittedTxns : Len(evs[t]) = 1
         /\ \A t, u \in CommittedTxns :
                t # u => KeyOf(evs[t][1]) # KeyOf(evs[u][1]) )
       => stats = [received |-> Cardinality(CommittedTxns),
                   unique_processed |-> Cardinality(CommittedTxns),
                   duplicate_dropped |-> 0]

\* Two admissions of two distinct new events were in flight together and both
\* committed; nothing else ran.
C4_Witness ==
    /\ Cardinality(CommittedTxns) = 2
    /\ \A t \in Txns : pc[t] \in {"committed", "idle"}
    /\ \A t \in CommittedTxns : Len(evs[t]) = 1
    /\ overlap = 2
    /\ stats = [received |-> 2, unique_processed |-> 2, duplicate_dropped |-> 0]

\* The store changes a committing admission t makes: one row per event whose
\* insert returned a row, one audit row per event, the counters by its totals.
RowsWrittenBy(t) ==
    {[topic |-> evs[t][i].topic, event_id |-> evs[t][i].event_id,
      payload |-> evs[t][i].payload, worker_id |-> worker_id[t]] :
        i \in {j \in DOMAIN evs[t] : ~is_duplicate[t][j]}}

RECURSIVE AuditWrittenBy(_, _)
AuditWrittenBy(t, n) ==
    IF n = 0 THEN EmptyBag
    ELSE AuditWrittenBy(t, n - 1) (+)
         SetToBag({[topic |-> evs[t][n].topic, event_id |-> evs[t][n].event_id,
                    is_duplicate |-> is_duplicate[t][n],
                    worker_id |-> worker_id[t]]})

Plus(row, r, u, d) ==
    [received |-> row.received + r,
     unique_processed |-> row.unique_processed + u,
     duplicate_dropped |-> row.duplicate_dropped + d]

\* What one step of a batch admission t may do to the committed store.
C5_BatchStep(t) ==
    (kind'[t] = "batch" /\ pc'[t] # pc[t]) =>
        CASE pc'[t] = "committed" ->
                /\ events' = events \cup RowsWrittenBy(t)
                /\ audit_log' = audit_log (+) AuditWrittenBy(t, Len(evs[t]))
                /\ stats' = Plus(stats, Len(evs[t]), NewIn(t), DupIn(t))
                /\ result'[t].status = "ok"
          [] pc'[t] = "failed" ->
                /\ UNCHANGED <<events, stats, audit_log>>
                /\ result'[t] = [status |-> "error"]
          [] OTHER -> UNCHANGED <<events, stats, audit_log>>

\* C5: a batch admission is all-or-nothing.  Until it commits, none of its
\* steps changes the committed store; if it fails, the committed store stays
\* as it is and the caller gets the error; its commit publishes its event
\* rows, its audit rows and its counter totals in one step.
C5_BatchAllOrNothing == [][\A t \in Txns : C5_BatchStep(t)]_vars

\* A batch failed after it had inserted a new row and written both audit
\* rows, and its key is not stored.
C5_Witness ==
    \E t \in Txns :
        /\ kind[t] = "batch"
        /\ pc[t] = "failed"
        /\ Len(evs[t]) = 2
        /\ Len(is_duplicate[t]) = 2
        /\ idx[t] = 2
        /\ ~is_duplicate[t][1]
        /\ KeyOf(evs[t][1]) \notin StoredKeys
        /\ result[t] = [status |-> "error"]

\* The answer a committing synchronous submission t gets.
C6_BatchStep(t) ==
    (kind[t] = "batch" /\ pc[t] = "commit" /\ pc'[t] = "committed") =>
        LET n == Len(evs[t])
            fresh == {KeyOf(evs[t][i]) : i \in 1..n} \ StoredKeys
        IN result'[t] = [status |-> "ok", received |-> n,
                         processed |-> Cardinality(fresh),
                         duplicates |-> n - Cardinality(fresh)]

\* C6: a synchronous submission of N events answers received = N, processed =
\* the number of distinct keys of the batch that are not stored when it
\* commits, duplicates = N - processed; a key repeated inside the batch
\* counts once as processed and as a duplicate each other time.
C6_SyncResponseCounts == [][\A t \in Txns : C6_BatchStep(t)]_vars

\* A submission that repeats one key was answered received 2, processed 1,
\* duplicates 1.
C6_Witness ==
    \E t \in Txns :
        /\ kind[t] = "batch"
        /\ Committed(t)
        /\ Len(evs[t]) = 2
        /\ KeyOf(evs[t][1]) = KeyOf(evs[t][2])
        /\ result[t] = [status |-> "ok", received |-> 2, processed |-> 1,
                        duplicates |-> 1]

\* The counter deltas an admission told its caller, and the effect of a
\* committing batch on the counters.
ReturnedDelta(t) ==
    IF kind[t] = "single"
    THEN [received |-> 1,
          unique_processed |-> IF result[t].is_duplicate THEN 0 ELSE 1,
          duplicate_dropped |-> IF result[t].is_duplicate THEN 1 ELSE 0]
    ELSE [received |-> result[t].received,
          unique_processed |-> result[t].processed,
          duplicate_dropped |-> result[t].duplicates]

C7_BatchStep(t) ==
    (kind[t] = "batch" /\ pc[t] = "commit" /\ pc'[t] = "committed") =>
        stats' = Plus(stats, Len(evs[t]), result'[t].processed,
                      result'[t].duplicates)

C7_Accumulated ==
    /\ stats.received =
           SumOver([t \in CommittedTxns |-> ReturnedDelta(t).received],
                   CommittedTxns)
    /\ stats.unique_processed =
           SumOver([t \in CommittedTxns |-> ReturnedDelta(t).unique_processed],
                   CommittedTxns)
    /\ stats.duplicate_dropped =
           SumOver([t \in CommittedTxns |-> ReturnedDelta(t).duplicate_dropped],
                   CommittedTxns)

\* C7: the commit of a batch admission of N events that returns (processed,
\* duplicates) changes the counters by exactly N, processed, duplicates, and
\* the committed counters are the sum of what the committed admissions
\* returned.
C7_BatchTotalsAccumulate ==
    /\ []C7_Accumulated
    /\ [][\A t \in Txns : C7_BatchStep(t)]_vars

\* A batch of two new events and then a batch repeating one of them: the
\* counters moved by 3, 2, 1.
C7_Witness ==
    /\ Committed(1) /\ kind[1] = "batch" /\ result[1].processed = 2
    /\ Committed(2) /\ kind[2] = "batch" /\ Len(evs[2]) = 1
    /\ result[2].duplicates = 1
    /\ pc[3] = "idle"
    /\ overlap = 1
    /\ stats = [received |-> 3, unique_processed |-> 2, duplicate_dropped |-> 1]

\* C8: a key with K committed submissions (single or batch, any
\* interleaving) has exactly K audit rows, and when K >= 1 exactly one of
\* them has is_duplicate = false.
C8_AuditRowPerAttempt ==
    \A k \in AllKeys :
        /\ AuditCount(AuditRowsOf(k)) = Cardinality(Occ(k))
        /\ Occ(k) # {} =>
               AuditCount({a \in AuditRowsOf(k) : ~a.is_duplicate}) = 1

\* A key was submitted four times, by a worker and in batches, with
\* admissions in flight together.
C8_Witness ==
    \E k \in AllKeys :
        /\ Cardinality(Occ(k)) >= 4
        /\ \E o \in Occ(k) : kind[o[1]] = "single"
        /\ overlap >= 2
        /\ AuditCount({a \in AuditRowsOf(k) : a.is_duplicate}) >= 3

\* The commit of an admission of one event, and the store after N admissions
\* of one key and nothing else.
C9_SoloStep(t) ==
    (Len(evs[t]) = 1 /\ pc[t] = "commit" /\ pc'[t] = "committed") =>
        IF KeyOf(evs[t][1]) \in StoredKeys
        THEN /\ events' = events
             /\ ReportsDuplicate(t)'
        ELSE /\ events' = events \cup
                    {[topic |-> evs[t][1].topic, event_id |-> evs[t][1].event_id,
                      payload |-> evs[t][1].payload, worker_id |-> worker_id[t]]}
             /\ ReportsNew(t)'

C9_Repeated ==
    \A k \in AllKeys :
        (CommittedTxns # {} /\ CommittedTxns = Solo(k)) =>
            /\ Cardinality(events) = 1
            /\ Cardinality(RowsOf(k)) = 1
            /\ stats = [received |-> Cardinality(Solo(k)),
                        unique_processed |-> 1,
                        duplicate_dropped |-> Cardinality(Solo(k)) - 1]
            /\ BagCardinality(audit_log) = Cardinality(Solo(k))

\* C9: admitting the same event N times leaves the events table as the first
\* admission left it.  The commit of an admission of one event whose key is
\* not stored adds its row and reports new; the commit of one whose key is
\* stored leaves the table unchanged and reports a duplicate; and when the
\* only committed admissions are N admissions of one key, the table holds one
\* row, received = N, unique_processed = 1, duplicate_dropped = N - 1 and the
\* audit log has N rows.
C9_RepeatedAdmissionIdempotent ==
    /\ []C9_Repeated
    /\ [][\A t \in Txns : C9_SoloStep(t)]_vars

\* The same event was admitted three times, one after the other.
C9_Witness ==
    \E k \in AllKeys :
        /\ Solo(k) = Txns
        /\ overlap = 1
        /\ ReportsNew(1) /\ ReportsDuplicate(2) /\ ReportsDuplicate(3)
        /\ Cardinality(events) = 1
        /\ stats = [received |-> 3, unique_processed |-> 1, duplicate_dropped |-> 2]
        /\ BagCardinality(audit_log) = 3

\* C10: deduplication is on the pair (topic, event_id).  Two committed
\* admissions of single events with the same event_id and different topics,
\* each the only committed submission of its key, both report new and both
\* rows are stored.
C10_SameIdOtherTopicIsNew ==
    \A t, u \in CommittedTxns :
        ( /\ Len(evs[t]) = 1 /\ Len(evs[u]) = 1
          /\ evs[t][1].event_id = evs[u][1].event_id
          /\ evs[t][1].topic # evs[u][1].topic
          /\ Occ(KeyOf(evs[t][1])) = {<<t, 1>>}
          /\ Occ(KeyOf(evs[u][1])) = {<<u, 1>>} )
        => /\ ReportsNew(t) /\ ReportsNew(u)
           /\ \E r \in events : r.topic = evs[t][1].topic
                                /\ r.event_id = evs[t][1].event_id
                                /\ r.payload = evs[t][1].payload
           /\ \E r \in events : r.topic = evs[u][1].topic
                                /\ r.event_id = evs[u][1].event_id
                                /\ r.payload = evs[u][1].payload

\* (alpha, X) and then (beta, X) were submitted and both are stored.
C10_Witness ==
    /\ Committed(1) /\ Committed(2) /\ pc[3] = "idle"
    /\ kind[1] = "batch" /\ kind[2] = "batch"
    /\ Len(evs[1]) = 1 /\ Len(evs[2]) = 1
    /\ evs[1][1].topic = <<"a">> /\ evs[2][1].topic = <<"b">>
    /\ evs[1][1].event_id = evs[2][1].event_id
    /\ result[1].processed = 1 /\ result[2].processed = 1
    /\ Cardinality(events) = 2

\* What one step of a single admission t (process_event) may do to the
\* committed store.
C11_SingleStep(t) ==
    (kind'[t] = "single" /\ pc'[t] # pc[t]) =>
        CASE pc'[t] = "failed" ->
                /\ pc[t] \in {"insert", "stats", "audit", "commit"}
                /\ UNCHANGED <<events, stats, audit_log>>
                /\ insRows'[t] = {} /\ newStats'[t] = NoRow
                /\ audRows'[t] = EmptyBag
                /\ result'[t] = [status |-> "error"]
          [] pc'[t] = "committed" -> pc[t] = "commit"
          [] OTHER -> UNCHANGED <<events, stats, audit_log>>

\* C11: a single admission that fails at its insert, its Stats update, its
\* audit append or its commit is rolled back.  None of its earlier steps
\* changed the committed events table, Stats row or audit log, the failing
\* step leaves them as they are and drops the pending writes, and the caller
\* gets the error; no failed single admission has a row stored under its tag.
C11_SingleFailureRollsBack ==
    /\ [](\A t \in Txns :
            (kind[t] = "single" /\ pc[t] = "failed") =>
                /\ result[t] = [status |-> "error"]
                /\ \A r \in events : r.payload # evs[t][1].payload
                /\ \A u \in Txns : Committed(u) \/ pc[u] = "failed" =>
                                       insRows[u] = {})
    /\ [][\A t \in Txns : C11_SingleStep(t)]_vars

\* A single admission of a new event failed after its insert had returned a
\* row, nothing else ran, and the store is as it was installed.
C11_Witness ==
    /\ kind[1] = "single" /\ pc[1] = "failed"
    /\ is_duplicate[1] = <<FALSE>>
    /\ pc[2] = "idle"
    /\ result[1] = [status |-> "error"]
    /\ events = {} /\ stats = SeedStats /\ audit_log = EmptyBag

\* The steps of an admission that meets a uniqueness conflict.
C12_ConflictStep(t) ==
    /\ ( /\ pc[t] = "insert" /\ pc'[t] # "insert"
         /\ KeyOf(evs[t][idx[t]]) \in StoredKeys
         /\ faults' = faults )
       => /\ pc'[t] \in {"stats", "audit"}
          /\ is_duplicate'[t] = Append(is_duplicate[t], TRUE)
    /\ ( /\ kind[t] = "single" /\ pc[t] = "commit" /\ pc'[t] = "committed"
         /\ is_duplicate[t][1] )
       => /\ result'[t] = [status |-> "ok", success |-> TRUE,
                           is_duplicate |-> TRUE]
          /\ events' = events
          /\ stats' = Plus(stats, 1, 0, 1)
          /\ audit_log' = audit_log (+)
                 SetToBag({[topic |-> evs[t][1].topic,
                            event_id |-> evs[t][1].event_id,
                            is_duplicate |-> TRUE,
                            worker_id |-> worker_id[t]]})

\* C12: a uniqueness conflict is not an error.  An insert that finds its key
\* stored (from the start, or after waiting for the concurrent admitter that
\* inserted it first) yields is_duplicate = true and goes on to the next
\* statement; the commit of such a single admission answers success with
\* is_duplicate = true, leaves the events table unchanged, adds (1, 0, 1) to
\* the counters and one duplicate audit row.
C12_ConflictIsNormalOutcome == [][\A t \in Txns : C12_ConflictStep(t)]_vars

\* Two single admissions of one key were in flight together; the first
\* reported new, the second waited for it and reported a duplicate.
C12_Witness ==
    /\ kind[1] = "single" /\ kind[2] = "single"
    /\ KeyOf(evs[1][1]) = KeyOf(evs[2][1])
    /\ Committed(1) /\ Committed(2) /\ pc[3] = "idle"
    /\ overlap = 2 /\ faults = 0
    /\ ReportsNew(1) /\ ReportsDuplicate(2)
    /\ stats = [received |-> 2, unique_processed |-> 1, duplicate_dropped |-> 1]

\* The keys of the events admission t was called with.
KeysIn(t) == {KeyOf(evs[t][i]) : i \in DOMAIN evs[t]}

\* C15: two batch admissions that ran concurrently on an empty store, with
\* overlapping key sets and no store error injected, both complete
\* successfully once they are over; their processed counts add up to the
\* number of distinct keys and their duplicates counts to the other events.
C15_OverlappingBatchesBothSucceed ==
    ( /\ kind[1] = "batch" /\ kind[2] = "batch" /\ pc[3] = "idle"
      /\ overlap = 2 /\ faults = 0
      /\ KeysIn(1) \cap KeysIn(2) # {}
      /\ pc[1] \in {"committed", "failed"}
      /\ pc[2] \in {"committed", "failed"} )
    => /\ Committed(1) /\ Committed(2)
       /\ result[1].processed + result[2].processed =
              Cardinality(KeysIn(1) \cup KeysIn(2))
       /\ result[1].duplicates + result[2].duplicates =
              Len(evs[1]) + Len(evs[2]) - Cardinality(KeysIn(1) \cup KeysIn(2))

\* C16: concurrent admissions of one event each, on the same or different
\* keys: in no reachable state is an admission in a cycle of admissions
\* waiting for each other, and every admission that began eventually commits.
C16_SinglesAllCommit ==
    /\ [](\A t \in Txns : ~Deadlocked(t))
    /\ \A t \in Txns : InFlight(t) ~> Committed(t)

\* All admissions were in flight at once and committed, and at this point an
\* admission of a stored-to-be key is waiting for the one that inserted it.
C16_Witness ==
    /\ overlap = NTxns
    /\ \E t, u \in Txns : InsertWaitsFor(t, u)
    /\ \E t, u \in Txns : StatsWaitsFor(t, u)
    /\ \E t \in Txns : kind[t] = "single"

\* Publications of key k, and the number of subscriptions that existed when
\* they were made.
PublicationsOf(k) == {i \in DOMAIN published : KeyOf(published[i].key) = k}

FanoutOf(k) ==
    SumOver([i \in DOMAIN published |-> Cardinality(published[i].receivers)],
            PublicationsOf(k))

FannedOutKeys == {k \in AllKeys : FanoutOf(k) > 0}

\* Every publication has been admitted once by each worker subscribed to it.
C13_Absorbed ==
    /\ stats.received = SumOver([k \in AllKeys |-> FanoutOf(k)], AllKeys)
    /\ stats.unique_processed = Cardinality(FannedOutKeys)
    /\ stats.duplicate_dropped = stats.received - stats.unique_processed
    /\ \A k \in AllKeys :
        /\ Cardinality(RowsOf(k)) = IF k \in FannedOutKeys THEN 1 ELSE 0
        /\ AuditCount(AuditRowsOf(k)) = FanoutOf(k)
        /\ Cardinality(Solo(k)) = FanoutOf(k)

C13_Delivery ==
    published' # published =>
        \A w \in Workers :
            inbox'[w] = IF pubsub[w] = "subscribed"
                        THEN Append(inbox[w], published'[Len(published')].key)
                        ELSE inbox[w]

\* C13: a published message is put into the inbox of every worker subscribed
\* at that moment, and with no store error and no shutdown each of them
\* admits it: eventually, for good, received is the sum over the publications
\* of the number of subscribed workers (W for an event published once to W
\* workers), unique_processed the number of keys published to at least one
\* worker (1), duplicate_dropped the rest (W - 1), every such key has one row
\* and as many audit rows and committed admissions as workers received it.
C13_FanoutAbsorbed ==
    /\ <>[]C13_Absorbed
    /\ [][C13_Delivery]_vars

\* One event was published once while every worker was subscribed, and the
\* counters moved by W, 1, W - 1, with one row and W audit rows.
C13_Witness ==
    /\ Len(published) = 1
    /\ published[1].receivers = Workers
    /\ stats = [received |-> NWorkers, unique_processed |-> 1,
                duplicate_dropped |-> NWorkers - 1]
    /\ Cardinality(events) = 1
    /\ BagCardinality(audit_log) = NWorkers
    /\ \A w \in Workers : wpc[w] = "poll"

\* The pool has admitted key k: its row is stored and an admission of it
\* committed (which the counters count, C4).
Admitted(k) == RowsOf(k) # {} /\ Solo(k) # {}

Started == \E w \in Workers : wpc[w] # "none"

\* The PubSub object of a finished worker is released: closed, or never made
\* because the task was cancelled before it ran.
Released(w) == pubsub[w] \in {"none", "closed"}

\* With a single call of stop_workers every finished worker has released its
\* subscription.
OneStopReleasesAll ==
    (\A s \in Stops : s > 1 => spc[s] = "idle") =>
        \A w \in Workers : wpc[w] = "done" => Released(w)

\* C17: stop_workers is idempotent.  Once it was called a second time (after
\* the first call returned, or while the first is still waiting), the pool is
\* in the state one call leaves: the flag is set, a call that has returned
\* after the start left the list empty and every task finished, and every
\* finished worker completed its unsubscribe and released its subscription.
C17_StopIsIdempotent ==
    (\E s \in Stops : s > 1 /\ spc[s] # "idle") =>
        /\ shutdown
        /\ \A w \in Workers : wpc[w] = "done" => Released(w)
        /\ (Started /\ workers = {}) => \A w \in Workers : wpc[w] = "done"

\* C18: when a call of stop_workers that waited for the tasks returns, every
\* worker task spawned by start_workers has finished and _workers is empty;
\* from then on no task is runnable; and a call that waits does return,
\* whatever await each worker was suspended at when it was cancelled.
C18_NoWorkerRunnableAfterStop ==
    /\ [][\A s \in Stops :
            (spc[s] = "gather" /\ spc'[s] = "returned") =>
                /\ \A w \in Workers : wpc'[w] = "done" /\ ~cancelReq'[w]
                /\ workers' = {}]_vars
    /\ []((Started /\ workers = {}) => \A w \in Workers : wpc[w] = "done")
    /\ \A s \in Stops : (spc[s] = "gather") ~> (spc[s] = "returned")

\* stop_workers returned after it had cancelled a worker inside an admission;
\* every task has finished and the list is empty.
C18_Witness ==
    /\ spc[1] = "returned"
    /\ workers = {}
    /\ \A w \in Workers : wpc[w] = "done"
    /\ \E t \in Txns : pc[t] = "cancelled"
    /\ \E t \in Txns : pc[t] = "failed"

\* C19: a worker that acquired its subscription has unsubscribed and released
\* it when its task finishes, whichever way it left the loop, and the
\* shutdown is not complete (the list emptied after the start) while a worker
\* is still subscribed.
C19_UnsubscribedOnEveryExit ==
    /\ \A w \in Workers :
           wpc[w] = "done" => pubsub[w] \notin {"subscribed", "unsubscribed"}
    /\ (Started /\ workers = {}) => \A w \in Workers : pubsub[w] # "subscribed"

\* C20: shutdown does not cancel an admission in flight: no admission of a
\* worker ends because its worker was cancelled; it ends by its own commit or
\* by a rollback the store dictated.
C20_InFlightAdmissionNotCancelled ==
    \A t \in Txns : pc[t] # "cancelled" /\ result[t] # CancelledResult


\* ----------------------------------------------------------------- C24
\* C24: the three counters of the stats row never decrease: in every step
\* (a commit, a rollback, a failed statement or any statement in between)
\* received, unique_processed and duplicate_dropped of the committed row are
\* at least what they were.
C24_CountersNeverDecrease ==
    [][/\ stats'.received >= stats.received
       /\ stats'.unique_processed >= stats.unique_processed
       /\ stats'.duplicate_dropped >= stats.duplicate_dropped]_vars

\* The counters have risen over several commits (a new event, a duplicate, a
\* batch), and an admission was rolled back in between.
C24_Witness ==
    /\ stats.unique_processed >= 2
    /\ stats.duplicate_dropped >= 1
    /\ \E t \in Txns : pc[t] = "failed"
    /\ \E t \in Txns : pc[t] = "committed" /\ kind[t] = "batch"
    /\ \E t \in Txns : pc[t] = "committed" /\ kind[t] = "single"

\* ----------------------------------------------------------------- C25
\* C25: a stored row is immutable and permanent: in every step every row of
\* the events table is still there with all its fields (timestamp, source and
\* payload, carried by the payload tag, and worker_id) as they were, and it is
\* still the only row of its key, whatever a later admission of the same key
\* carries.
C25_StoredRowImmutable ==
    [][\A r \in events :
          /\ r \in events'
          /\ \A q \in events' : KeyOf(q) = KeyOf(r) => q = r]_vars

\* A key was stored by one admission, and a later admission of the same key
\* with another payload and another worker_id committed as a duplicate: the
\* row is the first one's.
C25_Witness ==
    \E t, u \in Txns :
        /\ t < u
        /\ pc[t] = "committed" /\ pc[u] = "committed"
        /\ worker_id[t] # worker_id[u]
        /\ \E i \in 1..Len(evs[t]), j \in 1..Len(evs[u]) :
              /\ KeyOf(evs[t][i]) = KeyOf(evs[u][j])
              /\ evs[t][i].payload # evs[u][j].payload
              /\ ~is_duplicate[t][i]
              /\ is_duplicate[u][j]
              /\ Row(evs[t][i], worker_id[t]) \in events
              /\ Row(evs[u][j], worker_id[u]) \notin events


\* ----------------------------------------------------------------- C21
\* process_event calls a worker has made, messages that decode to an event
\* and wait in its subscription, and events the channel delivered to it.
AdmissionsBy(w) ==
    Cardinality({t \in Txns : pc[t] # "idle" /\ worker_id[t] = WorkerName(w)})

ValidWaiting(w) ==
    Cardinality({i \in 1..Len(inbox[w]) : DecodeOutcome(inbox[w][i]) = "event"})

DeliveredTo(w) ==
    Cardinality({i \in 1..Len(published) : w \in published[i].receivers})

\* C21: with the flag set and no task cancelled, every worker task that
\* exists (not yet run, subscribing, polling, admitting or backing off)
\* eventually finishes: the poll returns, the admission returns or raises, the
\* backoff ends, and the next check of the flag leaves the loop.
C21_FlagAloneStopsWorkers ==
    \A w \in Workers : (shutdown /\ wpc[w] # "none") ~> (wpc[w] = "done")

\* The flag is set and nobody was cancelled: one worker that had admitted a
\* message has left its loop and finished, the other is still inside an
\* admission.
C21_Witness ==
    /\ shutdown
    /\ \A s \in Stops : spc[s] = "idle"
    /\ \E w, v \in Workers :
          /\ wpc[w] = "done" /\ pubsub[w] = "closed" /\ AdmissionsBy(w) >= 1
          /\ wpc[v] = "admit" /\ InFlight(wtxn[v])

\* ----------------------------------------------------------------- C22
\* A polling worker takes a message that is no valid event off its
\* subscription.
C22_DropStep(w) ==
    (/\ wpc[w] = "poll"
     /\ inbox[w] # <<>>
     /\ Head(inbox[w]) \in ForeignData
     /\ inbox'[w] = Tail(inbox[w]))
    => /\ UNCHANGED <<storeVars, txnVars>>
       /\ wtxn'[w] = wtxn[w]
       /\ wpc'[w] \in {"poll", "sleep", "unsubscribe"}
       /\ wpc'[w] = "unsubscribe" => shutdown

\* While the flag is not set, every event delivered to a subscribed worker
\* has been handed to process_event by that worker.
AllDeliveredAdmitted ==
    shutdown \/ \A w \in Workers :
                   pubsub[w] = "subscribed" => AdmissionsBy(w) = DeliveredTo(w)

\* C22: a message that does not decode to a valid event is dropped: the step
\* that takes it makes no store call (events, stats, audit_log and every
\* admission are as they were) and keeps the worker in its loop; the message
\* does not stay at the head of the subscription, and the events delivered
\* after it are admitted as usual.
C22_InvalidMessageDropped ==
    /\ [][\A w \in Workers : C22_DropStep(w)]_vars
    /\ \A w \in Workers :
          (inbox[w] # <<>> /\ Head(inbox[w]) \in ForeignData)
              ~> (inbox[w] = <<>> \/ Head(inbox[w]) \notin ForeignData)
    /\ <>[]AllDeliveredAdmitted

\* No store error happened and a worker is in the backoff: it dropped JSON
\* that is no object; an event delivered after it is next, and the store holds
\* only what the committed admissions wrote.
C22_Witness ==
    /\ faults = 0
    /\ ~shutdown
    /\ \E w \in Workers :
          /\ wpc[w] = "sleep"
          /\ inbox[w] # <<>>
          /\ DecodeOutcome(Head(inbox[w])) = "event"
          /\ AdmissionsBy(w) >= 1
    /\ stats.received = Cardinality({t \in Txns : pc[t] = "committed"})

\* ----------------------------------------------------------------- C23
\* The worker learns that its process_event call raised.
C23_RaisedStep(w) ==
    (wpc[w] = "admit" /\ pc[wtxn[w]] = "failed" /\ wpc'[w] # "admit")
    => /\ wpc'[w] = "sleep"
       /\ inbox'[w] = inbox[w]
       /\ UNCHANGED <<storeVars, txnVars>>

\* C23: a worker's admission that fails with a store error is not retried
\* and its message is not queued again (a worker never makes more
\* process_event calls than events were delivered to it), it leaves no trace
\* in the store (no row of the failed admission, the counters and the audit
\* log count the committed admissions only), the worker goes to its backoff
\* and back to the poll, it leaves the loop only when the flag is set, and the
\* events delivered to it later are admitted.
C23_StoreErrorSkipsMessage ==
    /\ [](\A w \in Workers :
             /\ AdmissionsBy(w) + ValidWaiting(w) <= DeliveredTo(w)
             /\ pubsub[w] = "subscribed" =>
                   AdmissionsBy(w) + ValidWaiting(w) = DeliveredTo(w))
    /\ [](\A t \in Txns :
             pc[t] = "failed" => \A r \in events : r.payload # evs[t][1].payload)
    /\ [](LET n == Cardinality({t \in Txns : pc[t] = "committed"})
          IN stats.received = n /\ BagCardinality(audit_log) = n)
    /\ [][\A w \in Workers : C23_RaisedStep(w)]_vars
    /\ [](~shutdown =>
             \A w \in Workers : wpc[w] \notin {"unsubscribe", "close", "done"})
    /\ \A w \in Workers : (wpc[w] = "sleep") ~> (wpc[w] = "poll" \/ shutdown)
    /\ <>[]AllDeliveredAdmitted

\* A worker's admission failed with a store error, and the same worker, back
\* in its loop, committed the admission of a later message.
C23_Witness ==
    /\ ~shutdown
    /\ \E w \in Workers, t, u \in Txns :
          /\ t < u
          /\ worker_id[t] = WorkerName(w) /\ pc[t] = "failed"
          /\ worker_id[u] = WorkerName(w) /\ pc[u] = "committed"
          /\ wpc[w] = "poll"


\* ----------------------------------------------------------------- C26
\* The responses get_stats has returned.
StatsResponses ==
    {http[i].body : i \in {j \in DOMAIN http :
                              http[j].op = "stats" /\ http[j].status = 200}}

\* C26: every snapshot get_stats returns, whatever the admissions running
\* and committing around its two statements, has received = unique_processed
\* + duplicate_dropped.
C26_SnapshotSatisfiesCounterInvariant ==
    \A b \in StatsResponses :
        b.received = b.unique_processed + b.duplicate_dropped

\* A snapshot that counts one admission, returned when a second admission
\* had committed a duplicate after the snapshot's first statement (the
\* counters it shows are no longer the committed ones) and while a third
\* admission has its UPDATE stats pending.
C26_Witness ==
    /\ \E b \in StatsResponses :
          /\ b.received = 1
          /\ stats.received = 2 /\ stats.duplicate_dropped = 1
    /\ \E t \in Txns : InFlight(t) /\ newStats[t] # NoRow


\* ----------------------------------------------------------------- C27
\* The submissions the API has taken, and the events of a submission.
Submissions == {i \in DOMAIN http : http[i].op = "publish"}

RawOf(i) == http[i].arg.body.events

Accepted(i) == http[i].status # 422

\* A string of whitespace only (the empty string is one).
AllWhitespace(s) == \A k \in DOMAIN s : s[k] \in Whitespace

\* What is left of s after taking whitespace off its two ends, in every way.
Trimmings(s) ==
    {SubSeq(s, a, b) : <<a, b>> \in
        {<<c, d>> \in (1..(Len(s) + 1)) \X (0..Len(s)) :
            /\ c <= d + 1
            /\ \A k \in 1..(c - 1) : s[k] \in Whitespace
            /\ \A k \in (d + 1)..Len(s) : s[k] \in Whitespace}}

\* s1 and s2 differ at most in leading and trailing whitespace.
SamePadded(s1, s2) == Trimmings(s1) \cap Trimmings(s2) # {}

\* Event p of submission i and event q of submission j, both accepted,
\* differ at most in the whitespace around topic and event_id.
C27_SameKey(i, p, j, q) ==
    (/\ Accepted(i) /\ Accepted(j)
     /\ SamePadded(RawOf(i)[p].topic, RawOf(j)[q].topic)
     /\ SamePadded(RawOf(i)[p].event_id, RawOf(j)[q].event_id))
    => /\ ParsedKeys(http[i].arg.body)[p] = ParsedKeys(http[j].arg.body)[q]
       /\ (http[i].txn # 0 /\ http[j].txn # 0) =>
             LET t == http[i].txn
                 u == http[j].txn
             IN /\ KeyOf(evs[t][p]) = KeyOf(evs[u][q])
                /\ (Committed(t) /\ Committed(u)) =>
                      /\ is_duplicate[t][p] \/ is_duplicate[u][q]
                      /\ Cardinality({r \in events :
                                         KeyOf(r) = KeyOf(evs[t][p])}) = 1

\* C27: topic and event_id are trimmed before deduplication: two submitted
\* events that differ only in the whitespace around their topic or event_id
\* get the same key, so that of two committed admissions of them one is
\* reported duplicate and the key has one row; and a submission with a topic
\* or event_id that is empty or whitespace only is rejected (422).
C27_TrimmedBeforeDedup ==
    /\ \A i, j \in Submissions :
          \A p \in DOMAIN RawOf(i), q \in DOMAIN RawOf(j) :
              <<i, p>> # <<j, q>> => C27_SameKey(i, p, j, q)
    /\ \A i \in Submissions :
          (\E p \in DOMAIN RawOf(i) :
              AllWhitespace(RawOf(i)[p].topic)
                  \/ AllWhitespace(RawOf(i)[p].event_id))
          => http[i].status = 422

\* Two synchronous submissions of one event each whose topics are different
\* strings, equal after trimming, both committed: the first stored the row,
\* the second is reported duplicate.
C27_Witness ==
    /\ Len(http) = 2
    /\ http[1].txn = 1 /\ http[2].txn = 2
    /\ RawOf(1)[1].topic # RawOf(2)[1].topic
    /\ SamePadded(RawOf(1)[1].topic, RawOf(2)[1].topic)
    /\ RawOf(1)[1].event_id = RawOf(2)[1].event_id
    /\ Committed(1) /\ Committed(2)
    /\ ~is_duplicate[1][1] /\ is_duplicate[2][1]
    /\ Cardinality(events) = 1

\* ----------------------------------------------------------------- C28
\* The value after trimming is non-empty and within the limit.
TrimmedWithinLimit(s) == Strip(s) # <<>> /\ Len(Strip(s)) <= MaxLength

\* C28: a submitted event is accepted exactly when, for its topic and for
\* its event_id, the value after trimming the surrounding whitespace is
\* non-empty and at most the limit long.
C28_LimitAppliesToTrimmedValue ==
    \A i \in Submissions :
        ~http[i].arg.body.batch =>
            (Accepted(i) <=> /\ TrimmedWithinLimit(RawOf(i)[1].topic)
                             /\ TrimmedWithinLimit(RawOf(i)[1].event_id))

\* ----------------------------------------------------------------- C29
\* A submission is answered 422.
C29_RejectStep ==
    (/\ Len(http') = Len(http) + 1
     /\ http'[Len(http')].op = "publish"
     /\ http'[Len(http')].status = 422)
    => UNCHANGED <<storeVars, txnVars, poolVars>>

\* The events the accepted queued submissions carried.
RECURSIVE QueuedEvents(_)
QueuedEvents(n) ==
    IF n = 0 THEN 0
    ELSE QueuedEvents(n - 1)
         + (IF /\ http[n].op = "publish"
               /\ http[n].status = 200
            THEN Len(RawOf(n)) ELSE 0)

\* C29: a batch of no events or of more events than the largest number is
\* rejected, and so is a submission with an invalid event; the step that
\* rejects a submission changes neither the store nor any admission nor the
\* channel; a rejected submission has no admission; and the admissions and
\* the published events are those of the accepted submissions only.
C29_RejectedSubmissionAdmitsNothing ==
    /\ [](\A i \in Submissions :
             /\ (http[i].arg.body.batch /\ Len(RawOf(i)) \notin 1..MaxBatch)
                    => http[i].status = 422
             /\ (\E p \in DOMAIN RawOf(i) : ~ValidateEvent(RawOf(i)[p]).ok)
                    => http[i].status = 422
             /\ http[i].status = 422 => http[i].txn = 0)
    /\ [](Cardinality({t \in Txns : pc[t] # "idle"})
             = Cardinality({i \in Submissions : http[i].txn # 0}))
    /\ [](Len(published) = QueuedEvents(Len(http)))
    /\ [][C29_RejectStep]_vars

\* A batch of no events and a batch of one event too many, all of them valid,
\* were both rejected, and the store and the channel are as installed.
C29_Witness ==
    /\ \E i \in Submissions :
          http[i].arg.body.batch /\ Len(RawOf(i)) = 0 /\ http[i].status = 422
    /\ \E i \in Submissions :
          /\ http[i].arg.body.batch /\ Len(RawOf(i)) = MaxBatch + 1
          /\ \A p \in DOMAIN RawOf(i) : ValidateEvent(RawOf(i)[p]).ok
          /\ http[i].status = 422
    /\ events = {} /\ stats = SeedStats /\ audit_log = EmptyBag
    /\ \A t \in Txns : pc[t] = "idle"
    /\ published = <<>>

\* ----------------------------------------------------------------- C30
\* The limit brought into the range.
LimitClamped(limit) ==
    IF limit < MinLimit THEN MinLimit
    ELSE IF limit > MaxLimit THEN MaxLimit
    ELSE limit

\* C30: a listing with a limit below the smallest is served as with the
\* smallest, one with a limit above the largest as with the largest: every
\* listing is served (never rejected) and returns at most the clamped limit
\* of events.
C30_LimitClamped ==
    \A i \in DOMAIN http :
        http[i].op = "events" =>
            /\ http[i].status # 422
            /\ http[i].status = 200 =>
                  Cardinality(http[i].body.events)
                      <= LimitClamped(http[i].arg.limit)

\* ----------------------------------------------------------------- C33
\* C33: in every committed state of a store that was installed empty, the
\* events table has unique_processed rows, the audit log has received rows,
\* and the audit rows with is_duplicate = false are as many as the event rows.
C33_TablesMatchCounters ==
    /\ Cardinality(events) = stats.unique_processed
    /\ BagCardinality(audit_log) = stats.received
    /\ AuditCount({a \in DOMAIN audit_log : ~a.is_duplicate})
           = Cardinality(events)

\* Rows of two keys, a duplicate among the audit rows, admissions of both
\* kinds committed.
C33_Witness ==
    /\ Cardinality(events) = 2
    /\ stats.duplicate_dropped >= 1
    /\ \E t \in Txns : pc[t] = "committed" /\ kind[t] = "batch"
    /\ \E t \in Txns : pc[t] = "committed" /\ kind[t] = "single"

\* ----------------------------------------------------------------- C34
\* C34: for every stored row, the audit log has exactly one row of its key
\* with is_duplicate = false, and that audit row names the worker_id the
\* stored row names.
C34_CreditedAdmitterWonTheInsert ==
    \A r \in events :
        LET won == {a \in AuditRowsOf(KeyOf(r)) : ~a.is_duplicate}
        IN /\ AuditCount(won) = 1
           /\ \A a \in won : a.worker_id = r.worker_id

\* A key was admitted by a worker and by a synchronous submitter whose
\* admissions were in flight together; one of them has the row, the audit log
\* has a row of each.
C34_Witness ==
    /\ overlap >= 2
    /\ \E r \in events :
          /\ r.worker_id = "api-sync"
          /\ \E a \in AuditRowsOf(KeyOf(r)) :
                a.is_duplicate /\ a.worker_id \in WorkerIds
    /\ \E r \in events :
          /\ r.worker_id \in WorkerIds
          /\ \E a \in AuditRowsOf(KeyOf(r)) :
                a.is_duplicate /\ a.worker_id = "api-sync"

\* ----------------------------------------------------------------- C35
\* The sum of the per-topic counts of a snapshot.
TopicSum(b) == SumOver(b.topics, DOMAIN b.topics)

\* The second statement of a get_stats call is executed and the snapshot
\* returned.
C35_SecondRead(i) ==
    (/\ i \in DOMAIN http /\ http[i].op = "stats" /\ http[i].status = 0
     /\ http'[i].status = 200)
    => /\ http'[i].body.unique_processed = http[i].part.unique_processed
       /\ TopicSum(http'[i].body) = Cardinality(events)
       /\ stats = http[i].part =>
             TopicSum(http'[i].body) = http'[i].body.unique_processed

\* C35: the snapshot's counters are those of the first statement and its
\* topic counts those of the second, so in every snapshot the per-topic
\* counts add up to at least unique_processed, and to exactly
\* unique_processed when no admission committed between the two statements
\* (the stats row is the one the first statement read).
C35_TopicCountsCoverUniqueProcessed ==
    /\ [](\A b \in StatsResponses : TopicSum(b) >= b.unique_processed)
    /\ [][\A i \in 1..MaxReads : C35_SecondRead(i)]_vars

\* A snapshot whose topic counts add up to more than its unique_processed:
\* an admission of a new event committed between the two statements.
C35_Witness ==
    \E b \in StatsResponses :
        /\ b.unique_processed >= 1
        /\ TopicSum(b) > b.unique_processed


\* ----------------------------------------------------------------- C36
\* The store and the totals after one more single-event admission of e by
\* w that runs alone from st: insert unless the key is stored, add the
\* single admission's delta to the stats row, add its audit row, commit.
AdmitAlone(st, e, w) ==
    LET d == \E r \in st.events : ConflictTarget(r) = ConflictTarget(e)
    IN [events |-> IF d THEN st.events ELSE st.events \cup {Row(e, w)},
        stats |-> UpdateStats(st.stats, StatsDeltaSingle(d)),
        audit_log |-> st.audit_log (+) SetToBag({AuditRow(e, d, w)}),
        processed |-> IF d THEN st.processed ELSE st.processed + 1,
        duplicates |-> IF d THEN st.duplicates + 1 ELSE st.duplicates]

\* The events of es admitted one at a time, in order.
RECURSIVE OneAtATime(_, _, _)
OneAtATime(st, es, w) ==
    IF es = <<>> THEN st
    ELSE OneAtATime(AdmitAlone(st, Head(es), w), Tail(es), w)

\* Admission t commits and no two admissions have been in flight together.
C36_CommitStep(t) ==
    (pc[t] = "commit" /\ pc'[t] = "committed" /\ overlap = 1) =>
        LET before == [events |-> events, stats |-> stats,
                       audit_log |-> audit_log,
                       processed |-> 0, duplicates |-> 0]
            after == OneAtATime(before, evs[t], worker_id[t])
        IN /\ events' = after.events
           /\ stats' = after.stats
           /\ audit_log' = after.audit_log
           /\ result'[t] = IF kind[t] = "batch"
                           THEN PublishResponse(Len(evs[t]), after.processed,
                                                after.duplicates)
                           ELSE SingleResult(after.duplicates = 1)

\* C36: without concurrent writers, the commit of a batch admission leaves
\* the event rows, the audit rows and the stats row as admitting its events
\* one at a time in order would, and returns the totals of those single
\* admissions; the commit of a single admission, and so of a batch of one,
\* is one such admission.
C36_BatchIsSinglesInOrder == [][\A t \in Txns : C36_CommitStep(t)]_vars

\* Run one after the other: a single admission, a batch of one, and a batch
\* of two events of which one was new and one a duplicate.
C36_Witness ==
    /\ overlap = 1
    /\ \E t \in Txns : Committed(t) /\ kind[t] = "single"
    /\ \E t \in Txns : Committed(t) /\ kind[t] = "batch" /\ Len(evs[t]) = 1
    /\ \E t \in Txns :
        /\ Committed(t) /\ kind[t] = "batch" /\ Len(evs[t]) = 2
        /\ result[t] = PublishResponse(2, 1, 1)


\* ----------------------------------------------------------------- C37
\* Worker w gets its CancelledError inside process_event.
C37_CancelStep(w) ==
    (cancelReq[w] /\ wpc[w] = "admit" /\ wtxn[w] # 0 /\ wpc'[w] = "unsubscribe") =>
        LET t == wtxn[w]
            before == [events |-> events, stats |-> stats,
                       audit_log |-> audit_log,
                       processed |-> 0, duplicates |-> 0]
            all == AdmitAlone(before, evs[t][1], worker_id[t])
        IN /\ \/ <<events', stats', audit_log'>> = <<events, stats, audit_log>>
              \/ <<events', stats', audit_log'>> =
                     <<all.events, all.stats, all.audit_log>>
           /\ insRows'[t] = {}
           /\ newStats'[t] = NoRow
           /\ audRows'[t] = EmptyBag

C37_CountersHold ==
    /\ stats.received = stats.unique_processed + stats.duplicate_dropped
    /\ Cardinality(events) = stats.unique_processed
    /\ BagCardinality(audit_log) = stats.received

\* C37: the step that cancels a worker inside an admission leaves the
\* committed store either as it was or with the whole admission applied
\* (event row if new, stats increment, audit row), and leaves no pending
\* write of that admission behind; the counters agree with each other and
\* with the tables in every state, those after shutdown included.
C37_CancelledAdmissionAllOrNothing ==
    /\ [][\A w \in Workers : C37_CancelStep(w)]_vars
    /\ [](C37_CountersHold)

\* stop_workers has returned, having cancelled a worker whose admission had
\* inserted a new row, while another admission was committed.
C37_Witness ==
    /\ shutdown /\ workers = {}
    /\ \E s \in Stops : spc[s] = "returned"
    /\ \E t \in Txns : pc[t] = "cancelled" /\ is_duplicate[t] = <<FALSE>>
    /\ \E u \in Txns : pc[u] = "committed"
    /\ stats.received >= 1


\* ------------------------------------------ both submission paths at work
\* Bodies that validate, with and without padding, of two keys; alone or in
\* a list of up to MaxBatch.
PathEvents ==
    {[topic |-> <<"a">>, event_id |-> <<"x">>],
     [topic |-> <<" ", "a">>, event_id |-> <<"x">>],
     [topic |-> <<"b">>, event_id |-> <<"x">>]}

PathBodies ==
    {[batch |-> FALSE, events |-> <<e>>] : e \in PathEvents}
        \cup {[batch |-> TRUE, events |-> es] :
                 es \in UNION {[1..n -> PathEvents] : n \in 1..MaxBatch}}

\* A submission is made while the store has a connection for each admission
\* it causes.
SubmitSync(b, t) ==
    /\ SlotsInUse < NTxns
    /\ PublishSync(b, t)

SubmitQueued(b) ==
    /\ SlotsInUse + Len(b.events) * Cardinality(Subscribers) <= NTxns
    /\ PublishQueued(b)

\* The service while it is up: workers starting, subscribing and admitting
\* what they receive, and submitters using either path of POST /publish.
PathsNext ==
    \/ StartWorkers
    \/ \E b \in PathBodies, t \in Txns : SubmitSync(b, t)
    \/ \E b \in PathBodies : SubmitQueued(b)
    \/ \E w \in Workers :
        \/ WorkerRun(w)
        \/ Subscribe(w)
        \/ Receive(w)
        \/ PollTimeout(w)
        \/ AdmitReturned(w)
    \/ \E t \in Txns :
        \/ Insert(t) /\ UNCHANGED <<poolVars, apiVars>>
        \/ UpdateStatsRow(t) /\ UNCHANGED <<poolVars, apiVars>>
        \/ InsertAudit(t) /\ UNCHANGED <<poolVars, apiVars>>
        \/ Commit(t) /\ UNCHANGED <<poolVars, apiVars>>

SpecPaths == Init /\ [][PathsNext]_vars

\* ----------------------------------------------------------------- C32
\* The request that was just accepted, if this step accepted one.
C32_Accepted(sync) ==
    /\ Len(http') = Len(http) + 1
    /\ http'[Len(http')].op = "publish"
    /\ http'[Len(http')].status # 422
    /\ http'[Len(http')].arg.sync = sync

\* publish(sync=false): nothing of the store or of any admission changes, N
\* messages are published, and the answer is received N, 0, 0.
C32_QueuedStep ==
    C32_Accepted(FALSE) =>
        LET q == http'[Len(http')]
            n == Len(q.arg.body.events)
        IN /\ UNCHANGED <<storeVars, txnVars>>
           /\ Len(published') = Len(published) + n
           /\ q.status = 200
           /\ q.body = PublishResponse(n, 0, 0)

\* publish(sync=true): nothing is published or delivered, and an admission of
\* the request's events by "api-sync" begins.
C32_SyncStep ==
    C32_Accepted(TRUE) =>
        LET q == http'[Len(http')]
        IN /\ UNCHANGED <<published, inbox>>
           /\ pc[q.txn] = "idle" /\ pc'[q.txn] = "insert"
           /\ worker_id'[q.txn] = "api-sync"
           /\ Len(evs'[q.txn]) = Len(q.arg.body.events)

\* The commit of a synchronous submission adds one to received per event.
C32_SyncCommit(t) ==
    (pc[t] = "commit" /\ pc'[t] = "committed" /\ worker_id[t] = "api-sync") =>
        stats'.received = stats.received + Len(evs[t])

SyncRequests ==
    {i \in DOMAIN http :
        http[i].op = "publish" /\ http[i].status # 422 /\ http[i].arg.sync}

CommittedReceived ==
    SumOver([t \in Txns |-> IF Committed(t) THEN Len(evs[t]) ELSE 0], Txns)

\* Every admission by "api-sync" is the one of a synchronous request, every
\* admission by a worker is the one of a message delivered to it, and
\* received counts the events of the committed admissions.
C32_Accounting ==
    /\ {t \in Txns : worker_id[t] = "api-sync"} = {http[i].txn : i \in SyncRequests}
    /\ \A w \in Workers : AdmissionsBy(w) + ValidWaiting(w) = DeliveredTo(w)
    /\ stats.received = CommittedReceived

\* C32: a sync=false submission of N events publishes N messages, changes
\* nothing in the store, begins no admission and is answered received N,
\* processed 0, duplicates 0; a sync=true submission publishes and delivers
\* nothing and is admitted once, by "api-sync", its commit adding exactly one
\* to received per event, however many workers are subscribed; workers admit
\* only what was delivered to them.
C32_PathsDisjoint ==
    /\ [][C32_QueuedStep /\ C32_SyncStep]_vars
    /\ [][\A t \in Txns : C32_SyncCommit(t)]_vars
    /\ [](C32_Accounting)

\* With both workers subscribed, a synchronous submission of one event has
\* been committed and received is 1, and a queued submission of one event
\* has then been admitted by both workers, received rising by 2.
C32_Witness ==
    /\ Cardinality(Subscribers) = NWorkers
    /\ Len(http) = 2
    /\ http[1].arg.sync /\ ~http[2].arg.sync
    /\ \A t \in Txns : Committed(t)
    /\ stats.received = 3
    /\ \A w \in Workers : AdmissionsBy(w) = 1



\* ----------------------------------------------------------------- C38
\* A call of stop_workers has returned and the task of w is still running:
\* a returning call leaves no running task behind, so w was started by a
\* start_workers that followed it.
C38_StartedAfterStop(w) ==
    /\ \E s \in Stops : spc[s] = "returned"
    /\ wpc[w] \notin {"none", "done"}

\* Worker w is outside the body of its loop and has admitted nothing.
C38_AdmitsNothing(w) ==
    /\ wpc[w] \notin {"poll", "admit", "sleep"}
    /\ wtxn[w] = 0
    /\ AdmissionsBy(w) = 0

\* The flag stays set, and a worker started after a stop is never in the
\* body of its loop.
C38_FlagKeptAndNothingAdmitted ==
    /\ shutdown => shutdown'
    /\ \A w \in Workers : C38_StartedAfterStop(w) => C38_AdmitsNothing(w)

\* A worker started after a stop does not finish while subscribed.
C38_ExitsUnsubscribed ==
    \A w \in Workers :
        (C38_StartedAfterStop(w) /\ wpc'[w] = "done") => pubsub'[w] # "subscribed"

\* C38: the flag, once set, stays set; a worker started by a start_workers
\* that follows a stop never enters the body of its loop, admits nothing,
\* and is not subscribed any more when its task finishes.
C38_RestartedWorkersExitAtOnce ==
    [][C38_FlagKeptAndNothingAdmitted /\ C38_ExitsUnsubscribed]_vars

\* The same without a cancel() reaching the worker in its finally block.
C38_ExitsUnsubscribedUnlessCancelled ==
    [][/\ C38_FlagKeptAndNothingAdmitted
       /\ \A w \in Workers :
            (C38_StartedAfterStop(w) /\ wpc'[w] = "done" /\ ~cancelReq[w])
                => pubsub'[w] = "closed"]_vars


\* ------------------------------------------------- the application lifespan
\* The modules as imported, before the lifespan runs: _pool and
\* _redis_client are None, and the schema is as installed.
InitApp ==
    /\ events = {}
    /\ stats = SeedStats
    /\ audit_log = EmptyBag
    /\ pc = [t \in Txns |-> "idle"]
    /\ kind = [t \in Txns |-> "none"]
    /\ evs = [t \in Txns |-> <<>>]
    /\ worker_id = [t \in Txns |-> "none"]
    /\ idx = [t \in Txns |-> 0]
    /\ is_duplicate = [t \in Txns |-> <<>>]
    /\ processed = [t \in Txns |-> 0]
    /\ duplicates = [t \in Txns |-> 0]
    /\ insRows = [t \in Txns |-> {}]
    /\ newStats = [t \in Txns |-> NoRow]
    /\ audRows = [t \in Txns |-> EmptyBag]
    /\ result = [t \in Txns |-> NoResult]
    /\ overlap = 0
    /\ faults = 0
    /\ shutdown = FALSE
    /\ workers = {}
    /\ wpc = [w \in Workers |-> "none"]
    /\ pubsub = [w \in Workers |-> "none"]
    /\ inbox = [w \in Workers |-> <<>>]
    /\ cancelReq = [w \in Workers |-> FALSE]
    /\ wtxn = [w \in Workers |-> 0]
    /\ spc = [s \in Stops |-> "idle"]
    /\ published = <<>>
    /\ http = <<>>
    /\ pool = "none"
    /\ redis_client = "none"
    /\ lifespan = [at |-> "init_db", stop |-> 0]

\* lifespan, startup: await init_db().
InitDb ==
    /\ lifespan.at = "init_db"
    /\ pool' = "open"
    /\ lifespan' = [lifespan EXCEPT !.at = "init_redis"]
    /\ UNCHANGED <<storeVars, txnVars, poolVars, http, redis_client>>

\* lifespan, startup: await init_redis().
InitRedis ==
    /\ lifespan.at = "init_redis"
    /\ redis_client' = "open"
    /\ lifespan' = [lifespan EXCEPT !.at = "start_workers"]
    /\ UNCHANGED <<storeVars, txnVars, poolVars, http, pool>>

\* lifespan, startup: await start_workers(), then yield.
LifespanStart ==
    /\ lifespan.at = "start_workers"
    /\ StartWorkers

\* lifespan, shutdown: await stop_workers(), which runs up to its gather.
LifespanStop(s) ==
    /\ lifespan.at = "yield"
    /\ StopWorkers(s)
    /\ lifespan' = [at |-> "stop_workers", stop |-> s]

\* The task setup_signal_handlers creates on SIGTERM or SIGINT:
\* stop_workers(), while the service is up or being shut down.
SignalStop(s) ==
    /\ lifespan.at \in {"yield", "stop_workers"}
    /\ StopWorkers(s)
    /\ UNCHANGED lifespan

\* lifespan, shutdown: stop_workers() has returned; close_redis() finds the
\* client and awaits its close().
CloseRedis ==
    /\ lifespan.at = "stop_workers"
    /\ spc[lifespan.stop] = "returned"
    /\ redis_client' = IF redis_client = "none" THEN "none" ELSE "closing"
    /\ lifespan' = [lifespan EXCEPT !.at = "close_redis"]
    /\ UNCHANGED <<storeVars, txnVars, poolVars, http, pool>>

\* close() returned and _redis_client = None; close_db() finds the pool and
\* awaits its close().
CloseDb ==
    /\ lifespan.at = "close_redis"
    /\ redis_client' = IF redis_client = "none" THEN "none" ELSE "closed"
    /\ pool' = IF pool = "none" THEN "none" ELSE "closing"
    /\ lifespan' = [lifespan EXCEPT !.at = "close_db"]
    /\ UNCHANGED <<storeVars, txnVars, poolVars, http>>

\* The pool's close() returned and _pool = None: the lifespan ends.
CloseDone ==
    /\ lifespan.at = "close_db"
    /\ pool' = IF pool = "none" THEN "none" ELSE "closed"
    /\ lifespan' = [lifespan EXCEPT !.at = "done"]
    /\ UNCHANGED <<storeVars, txnVars, poolVars, http, redis_client>>

\* ------------------------------------------------------------- GET /health
\* What the body of the try block of check_db_health does: get_pool() raises
\* RuntimeError when _pool is None, acquire() raises InterfaceError on a pool
\* that is closing, and SELECT 1 answers or fails with the store (up).
DbProbe(up) ==
    IF pool \in {"none", "closed"} THEN "RuntimeError"
    ELSE IF pool = "closing" THEN "InterfaceError"
    ELSE IF up THEN "ok"
    ELSE "ConnectionError"

\* The same of check_redis_health: get_redis() raises RuntimeError when
\* _redis_client is None, and ping() answers or fails.
RedisProbe(up) ==
    IF redis_client \in {"none", "closed"} THEN "RuntimeError"
    ELSE IF redis_client = "closing" THEN "ConnectionError"
    ELSE IF up THEN "ok"
    ELSE "ConnectionError"

\* try: ...; return True / except Exception: return False.
CheckHealthLookupOutsideTry(outcome) ==
    [returned |-> outcome # "RuntimeError", value |-> outcome = "ok"]

CheckHealth(outcome) == [returned |-> TRUE, value |-> outcome = "ok"]

\* status = "healthy" if (db_healthy and redis_healthy) else "unhealthy", and
\* the HealthResponse.
HealthResponse(db_healthy, redis_healthy) ==
    [status |-> IF db_healthy /\ redis_healthy THEN "healthy" ELSE "unhealthy",
     database |-> IF db_healthy THEN "connected" ELSE "disconnected",
     redis |-> IF redis_healthy THEN "connected" ELSE "disconnected"]

\* health_check: db_healthy = await check_db_health().  An exception that
\* leaves the handler is answered 500.
HealthDb(up) ==
    /\ Len(http) < MaxRequests
    /\ LET o == DbProbe(up)
           r == CheckHealth(o)
       IN http' = Append(http,
                         HttpEntry("health", [db |-> o, redis |-> "none"],
                                   IF r.returned THEN 0 ELSE 500,
                                   r, NoResult, 0))
    /\ UNCHANGED <<storeVars, txnVars, poolVars, appVars>>

\* health_check: redis_healthy = await check_redis_health(), and the
\* response: returned if healthy, raised as HTTPException(503) if not.
HealthRedis(up) ==
    \E i \in DOMAIN http :
        /\ http[i].op = "health"
        /\ http[i].status = 0
        /\ LET o == RedisProbe(up)
               r == CheckHealth(o)
               response == HealthResponse(http[i].part.value, r.value)
           IN http' = [http EXCEPT
                  ![i] = HttpEntry("health", [db |-> http[i].arg.db, redis |-> o],
                                   IF ~r.returned THEN 500
                                   ELSE IF response.status = "unhealthy" THEN 503
                                   ELSE 200,
                                   http[i].part,
                                   IF r.returned THEN response ELSE NoResult, 0)]
        /\ UNCHANGED <<storeVars, txnVars, poolVars, appVars>>

\* The application from import to the end of its lifespan: startup, the
\* workers and the submissions they admit, and shutdown.
LifespanNext ==
    \/ InitDb
    \/ InitRedis
    \/ LifespanStart
    \/ \E k \in EventKey : PublishAsync(k)
    \/ \E w \in Workers :
        \/ WorkerRun(w)
        \/ Subscribe(w)
        \/ Receive(w)
        \/ PollTimeout(w)
        \/ AdmitReturned(w)
        \/ Unsubscribe(w)
        \/ Close(w)
        \/ CancelledBeforeRun(w)
        \/ CancelledInSubscribe(w)
        \/ CancelledInLoop(w)
        \/ CancelledInAdmit(w)
        \/ CancelledInFinally(w)
    \/ \E t \in Txns :
        \/ Awaited(t) /\ Insert(t) /\ UNCHANGED <<poolVars, apiVars>>
        \/ Awaited(t) /\ UpdateStatsRow(t) /\ UNCHANGED <<poolVars, apiVars>>
        \/ Awaited(t) /\ InsertAudit(t) /\ UNCHANGED <<poolVars, apiVars>>
        \/ Awaited(t) /\ Commit(t) /\ UNCHANGED <<poolVars, apiVars>>
    \/ \E s \in Stops :
        \/ LifespanStop(s)
        \/ SignalStop(s)
        \/ StopReturned(s)
    \/ CloseRedis
    \/ CloseDb
    \/ CloseDone

SpecLifespan == InitApp /\ [][LifespanNext]_vars

\* Health checks at any moment of the lifespan, from import to its end, with
\* the store and the transport answering or not; the workers receive
\* nothing.
HealthNext ==
    \/ InitDb
    \/ InitRedis
    \/ LifespanStart
    \/ \E w \in Workers :
        \/ WorkerRun(w)
        \/ Subscribe(w)
        \/ PollTimeout(w)
        \/ Unsubscribe(w)
        \/ Close(w)
        \/ CancelledBeforeRun(w)
        \/ CancelledInSubscribe(w)
        \/ CancelledInLoop(w)
    \/ \E s \in Stops :
        \/ LifespanStop(s)
        \/ StopReturned(s)
    \/ CloseRedis
    \/ CloseDb
    \/ CloseDone
    \/ \E up \in BOOLEAN :
        \/ HealthDb(up)
        \/ HealthRedis(up)

SpecHealth == InitApp /\ [][HealthNext]_vars


\* ----------------------------------------------------------------- C31
\* The health checks that have been answered.
HealthAnswers ==
    {i \in DOMAIN http : http[i].op = "health" /\ http[i].status # 0}

\* An answered check is answered 200 or 503 with the HealthResponse, 200
\* with "healthy" exactly when both probes succeeded, and each part of the
\* response tells whether its probe succeeded.
C31_AnswerMatchesProbes(q) ==
    /\ q.status \in {200, 503}
    /\ q.status = 200 <=> (q.arg.db = "ok" /\ q.arg.redis = "ok")
    /\ q.body.status = "healthy" <=> q.status = 200
    /\ q.body.status \in {"healthy", "unhealthy"}
    /\ q.body.database = "connected" <=> q.arg.db = "ok"
    /\ q.body.redis = "connected" <=> q.arg.redis = "ok"

\* A probe made while the pool, or the client, is not open does not succeed.
C31_ProbeStep ==
    /\ \A i \in DOMAIN http' :
          (i \notin DOMAIN http /\ http'[i].op = "health" /\ pool # "open")
              => http'[i].arg.db # "ok"
    /\ \A i \in DOMAIN http :
          (http[i].op = "health" /\ http[i].status = 0 /\ http'[i].status # 0
           /\ redis_client # "open")
              => http'[i].status = 503

\* C31: every health check is answered, with 200 and "healthy" if and only
\* if both the store probe and the transport probe succeeded and with 503 and
\* "unhealthy" otherwise; a probe of a pool or a client that is None, closing
\* or closed fails, and no check ends in an unhandled error.
C31_HealthyIffBothProbesSucceed ==
    /\ [](\A i \in HealthAnswers : C31_AnswerMatchesProbes(http[i]))
    /\ [][C31_ProbeStep]_vars

\* One check answered 200, and one answered 503 whose store probe found no
\* pool (not yet created, or closed by the shutdown) while the transport
\* answered.
C31_Witness ==
    /\ \E i \in HealthAnswers : http[i].status = 200
    /\ \E i \in HealthAnswers :
          /\ http[i].status = 503
          /\ http[i].arg.db = "RuntimeError"
          /\ http[i].arg.redis = "ok"
    /\ lifespan.at = "done"


\* ----------------------------------------------------------------- C39
\* A worker task takes a step (subscribe, receive, unsubscribe, close) or
\* the admission of a worker executes a statement.
C39_WorkerActs ==
    \/ wpc' # wpc
    \/ pubsub' # pubsub
    \/ \E w \in Workers : wtxn[w] # 0 /\ pc'[wtxn[w]] # pc[wtxn[w]]
    \/ \E t \in Txns : pc[t] = "idle" /\ pc'[t] # "idle"

\* The client is closed only after the lifespan's stop_workers returned,
\* with every task finished, and the pool only after the client.
C39_ClosedInOrder ==
    /\ (redis_client # "open" \/ pool # "open") =>
          /\ lifespan.stop \in Stops
          /\ spc[lifespan.stop] = "returned"
          /\ workers = {}
          /\ \A w \in Workers : wpc[w] = "done" /\ wtxn[w] = 0
          /\ \A t \in Txns : ~InFlight(t)
    /\ pool # "open" => redis_client = "closed"

\* C39: once the lifespan has started the workers, the transport client
\* leaves the open state only after the lifespan's stop_workers call has
\* returned with every worker task finished, and the pool only after the
\* client is closed; no worker task and no admission of a worker takes a
\* step while the client or the pool is not open.
C39_ShutdownOrdered ==
    /\ [](lifespan.at \notin {"init_db", "init_redis", "start_workers"}
             => C39_ClosedInOrder)
    /\ [][C39_WorkerActs => (redis_client = "open" /\ pool = "open")]_vars

\* The lifespan has ended with the client and the pool closed, after a
\* worker had admitted a message and a worker was cancelled by stop_workers
\* while subscribed and closed its subscription.
C39_Witness ==
    /\ lifespan.at = "done"
    /\ redis_client = "closed" /\ pool = "closed"
    /\ \E t \in Txns, w \in Workers : Committed(t) /\ worker_id[t] = WorkerName(w)
    /\ \E w \in Workers : pubsub[w] = "closed"
    /\ \E t \in Txns : pc[t] = "cancelled"

====
